---- MODULE Spec2Model ----
(***************************************************************************)
(* Session / seat ledger and shift assignment of the casino chip tracker   *)
(* (backend/app/api/sessions.py over the tables of backend/app/models/     *)
(* db.py).  Every request handler is one action: it runs in one database   *)
(* transaction (one SessionLocal per request, commit at the end), and a    *)
(* raised HTTPException leaves the store as it was.  Where requests run    *)
(* side by side a handler is split at its commit: the queries it makes     *)
(* first, then its writes and the commit.                                  *)
(***************************************************************************)
EXTENDS Integers, FiniteSets, Sequences, TLC

VARIABLES
    sessions,            \* table sessions: sequence of rows, a session's id is its index
    seats,               \* table seats: [<<session_id, seat_no>> -> row]
    chip_ops,            \* table chip_ops: set of rows
    chip_purchases,      \* table chip_purchases: set of rows
    dealer_assignments,  \* table session_dealer_assignments: set of rows
    waiter_assignments,  \* table session_waiter_assignments: set of rows
    now,                 \* the value utc_now() returns
    inflight,            \* per request slot: what a request under way has read
    balance_adjustments, \* table casino_balance_adjustments: sequence of rows
    resp                 \* the last request and the response it got

vars == <<sessions, seats, chip_ops, chip_purchases, dealer_assignments,
          waiter_assignments, now, inflight, balance_adjustments, resp>>

store == <<sessions, seats, chip_ops, chip_purchases, dealer_assignments,
           waiter_assignments>>

\* ------------------------------------------------------------------ bounds
NumTables   == 2      \* rows of table tables
NumDealers  == 2      \* active users with role dealer
NumWaiters  == 1      \* active users with role waiter
MaxSessions == 2      \* sessions ever created in the shift model
MaxSeats    == 2      \* seats_count a session is created with
MaxAmount   == 2      \* largest |amount| of a chip request
MaxOps      == 3      \* largest chip_ops.id a request may start from
MaxAssign   == 2      \* dealer assignments stored below which one more is requested
MaxTotal    == 2      \* largest |seat.total| followed
MaxRake     == 1      \* largest rake a request names
MaxTime     == 3      \* latest value of the clock
MaxRequests == 2      \* requests under way at the same time

\* the clock counts hours: seconds of an hour, as in total_seconds / 3600.0
SecondsPerHour == 3600

\* None of Python / NULL of SQL: an integer no id, amount or time takes
NULL == 0 - 1000

TableIds  == 1..NumTables
DealerIds == 1..NumDealers
WaiterIds == 1..NumWaiters

\* ----------------------------------------------------------------- helpers
RECURSIVE SumAmount(_)
\* sum(int(p.amount) for p in rows)
SumAmount(rows) ==
    IF rows = {} THEN 0
    ELSE LET r == CHOOSE x \in rows : TRUE
         IN  r.amount + SumAmount(rows \ {r})

Max(S) == CHOOSE x \in S : \A y \in S : y <= x
Min2(a, b) == IF a <= b THEN a ELSE b
Max2(a, b) == IF a >= b THEN a ELSE b
Abs(a) == IF a < 0 THEN 0 - a ELSE a

\* autoincrement primary key of a table holding rows
NextId(rows) == IF rows = {} THEN 1 ELSE Max({r.id : r \in rows}) + 1

SessionIds == DOMAIN sessions

SeatRow(sid, seat_no) == seats[<<sid, seat_no>>]
SeatExists(sid, seat_no) == <<sid, seat_no>> \in DOMAIN seats
SeatNos(sid) == {k[2] : k \in {q \in DOMAIN seats : q[1] = sid}}

\* the lookup with the seat filter left out
OpsOfSession(sid, seat_no) ==
    {o \in chip_ops : o.session_id = sid}

\* db.query(ChipOp).filter(ChipOp.session_id == ..., ChipOp.seat_no == ...)
OpsOfSeat(sid, seat_no) ==
    {o \in chip_ops : o.session_id = sid /\ o.seat_no = seat_no}
\* the purchases of every seat of the session
PurchasesOfSession(sid, seat_no) ==
    {p \in chip_purchases : p.session_id = sid}

PurchasesOfSeat(sid, seat_no) ==
    {p \in chip_purchases : p.session_id = sid /\ p.seat_no = seat_no}

\* _get_seat_credit: sum of the credit-classified purchases of the seat
get_seat_credit(purchases, sid, seat_no) ==
    SumAmount({p \in purchases : /\ p.session_id = sid
                                 /\ p.seat_no = seat_no
                                 /\ p.payment_type = "credit"})

\* _get_total_chips_played: sum of the positive purchases of the seat
get_total_chips_played(purchases, sid, seat_no) ==
    SumAmount({p \in purchases : /\ p.session_id = sid
                                 /\ p.seat_no = seat_no
                                 /\ p.amount > 0})

\* rows constructors
ChipOp(id, sid, seat_no, amount) ==
    [id |-> id, session_id |-> sid, seat_no |-> seat_no, amount |-> amount,
     created_at |-> now]

\* a purchase linked to the operation stored before its own
ChipPurchaseOfEarlierOp(sid, seat_no, amount, op_id, ptype) ==
    [session_id |-> sid, seat_no |-> seat_no, amount |-> amount,
     chip_op_id |-> op_id - 1, payment_type |-> ptype]

\* chip_purchases.id is left out: no handler reads it, chip_op_id is unique
ChipPurchase(sid, seat_no, amount, op_id, ptype) ==
    [session_id |-> sid, seat_no |-> seat_no, amount |-> amount,
     chip_op_id |-> op_id, payment_type |-> ptype]

SessionDealerAssignment(id, sid, dealer, started) ==
    [id |-> id, session_id |-> sid, dealer_id |-> dealer,
     started_at |-> started, ended_at |-> NULL, rake |-> NULL]

SessionWaiterAssignment(id, sid, waiter, started) ==
    [id |-> id, session_id |-> sid, waiter_id |-> waiter,
     started_at |-> started, ended_at |-> NULL]

\* the worker threads of the server, and a thread with no request
RequestSlots == 1..MaxRequests
Idle == [op |-> "idle"]

\* the handler that ran last, its HTTP status and the id of the session it
\* returned (create_session)
Response(op, status) == [op |-> op, status |-> status, result |-> NULL]

\* raise HTTPException(status): nothing of the transaction is committed
Raise(r, status) ==
    /\ resp' = [r EXCEPT !.status = status]
    /\ UNCHANGED <<sessions, seats, chip_ops, chip_purchases,
                   dealer_assignments, waiter_assignments, now, balance_adjustments, inflight>>

\* the lookup with the status test inverted
ClosedSessionsOfTable(tid) ==
    {s \in SessionIds : sessions[s].table_id = tid /\ sessions[s].status = "closed"}

\* db.query(Session).filter(Session.table_id == ..., Session.status == "open")
OpenSessionsOfTable(tid) ==
    {s \in SessionIds : sessions[s].table_id = tid /\ sessions[s].status = "open"}

\* -------------------------------------------------------------------- Init
Init ==
    /\ sessions = <<>>
    /\ seats = <<>>
    /\ chip_ops = {}
    /\ chip_purchases = {}
    /\ dealer_assignments = {}
    /\ waiter_assignments = {}
    /\ now = 0
    /\ inflight = [k \in RequestSlots |-> Idle]
    /\ balance_adjustments = <<>>
    /\ resp = Response("init", 200)

\* ---------------------------------------------------------- create_session
create_session(table_id, dealer_id, waiter_id, seats_count, chips_in_play) ==
    LET r == Response("create_session", 200)
        open == OpenSessionsOfTable(table_id)
        \* .order_by(Session.created_at.desc()).first()
        latest == {s \in open : \A t \in open :
                        sessions[t].created_at <= sessions[s].created_at}
        sid == Len(sessions) + 1
    IN
    IF table_id \notin TableIds THEN Raise(r, 404)
    ELSE IF open # {} THEN
        \E existing \in latest :
            /\ resp' = [r EXCEPT !.result = existing]
            /\ UNCHANGED <<sessions, seats, chip_ops, chip_purchases,
                           dealer_assignments, waiter_assignments, now, balance_adjustments, inflight>>
    ELSE IF dealer_id = NULL THEN Raise(r, 400)
    ELSE IF dealer_id \notin DealerIds THEN Raise(r, 400)
    ELSE IF \E s \in SessionIds : /\ sessions[s].status = "open"
                                  /\ sessions[s].dealer_id = dealer_id
         THEN Raise(r, 400)
    ELSE IF waiter_id # NULL /\ waiter_id \notin WaiterIds THEN Raise(r, 400)
    ELSE
        /\ sessions' = Append(sessions,
                [table_id |-> table_id, status |-> "open", created_at |-> now,
                 closed_at |-> NULL, dealer_id |-> dealer_id,
                 waiter_id |-> waiter_id, chips_in_play |-> chips_in_play])
        /\ dealer_assignments' = dealer_assignments \cup
                {SessionDealerAssignment(NextId(dealer_assignments), sid,
                                         dealer_id, now)}
        /\ waiter_assignments' =
                IF waiter_id # NULL
                THEN waiter_assignments \cup
                        {SessionWaiterAssignment(NextId(waiter_assignments),
                                                 sid, waiter_id, now)}
                ELSE waiter_assignments
        /\ seats' = [k \in DOMAIN seats \cup {<<sid, n>> : n \in 1..seats_count} |->
                        IF k \in DOMAIN seats THEN seats[k]
                        ELSE [player_name |-> NULL, total |-> 0]]
        /\ resp' = [r EXCEPT !.result = sid]
        /\ UNCHANGED <<chip_ops, chip_purchases, now, balance_adjustments, inflight>>

\* --------------------------------------------------------------- add_chips
\* the payoff taken as the larger of the two
credit_payoff_max(delta, current_credit) == Max2(delta, current_credit)

\* credit_payoff = min(delta, current_credit)
credit_payoff(delta, current_credit) == Min2(delta, current_credit)

\* cash buy-in while credit is outstanding: pay the credit off first
BuyinWithCredit(sid, seat_no, delta, seat_total, current_credit) ==
    LET payoff == credit_payoff(delta, current_credit)
        chips_to_add == delta - payoff
        op1 == NextId(chip_ops)
        payoff_ops == IF payoff > 0 THEN {ChipOp(op1, sid, seat_no, 0)} ELSE {}
        payoff_pur == IF payoff > 0
                      THEN {ChipPurchase(sid, seat_no, 0 - payoff, op1, "credit")}
                      ELSE {}
        op2 == NextId(chip_ops \cup payoff_ops)
        cash_ops == IF chips_to_add > 0
                    THEN {ChipOp(op2, sid, seat_no, chips_to_add)} ELSE {}
        cash_pur == IF chips_to_add > 0
                    THEN {ChipPurchase(sid, seat_no, chips_to_add, op2, "cash")}
                    ELSE {}
    IN  [ops |-> payoff_ops \cup cash_ops,
         purchases |-> payoff_pur \cup cash_pur,
         \* the second db.flush() writes the payoff purchase, nothing
         \* flushes the cash purchase before the chips_in_play query
         flushed |-> IF chips_to_add > 0 THEN payoff_pur ELSE {},
         total |-> seat_total + chips_to_add]

\* the purchase classified as cash whatever the request says
PlainOperationAsCash(sid, seat_no, delta, seat_total, payment_type) ==
    LET op1 == NextId(chip_ops)
    IN  [ops |-> {ChipOp(op1, sid, seat_no, delta)},
         purchases |-> IF delta > 0
                       THEN {ChipPurchase(sid, seat_no, delta, op1, "cash")}
                       ELSE {},
         flushed |-> {},
         total |-> seat_total + delta]

\* one chip operation of delta, with one purchase when delta > 0
PlainOperation(sid, seat_no, delta, seat_total, payment_type) ==
    LET op1 == NextId(chip_ops)
    IN  [ops |-> {ChipOp(op1, sid, seat_no, delta)},
         purchases |-> IF delta > 0
                       THEN {ChipPurchase(sid, seat_no, delta, op1, payment_type)}
                       ELSE {},
         flushed |-> {},
         total |-> seat_total + delta]

\* a cash-out with credit deduction accepted without validation
CashoutSplitUnchecked(delta, credit_to_deduct, seat_total, current_credit) == TRUE

\* the three validations of a cash-out with credit deduction
CashoutSplitValid(delta, credit_to_deduct, seat_total, current_credit) ==
    LET cashout_amount == Abs(delta)
        current_cash == Max2(0, seat_total - current_credit)
        cash_portion == cashout_amount - credit_to_deduct
    IN  /\ ~(credit_to_deduct > current_credit)
        /\ ~(credit_to_deduct > cashout_amount)
        /\ ~(cash_portion > current_cash)

\* the cash purchase written for the whole amount, the credit part included
CashoutWithCreditWholeCash(sid, seat_no, delta, credit_to_deduct, seat_total) ==
    LET op1 == NextId(chip_ops)
        main_op == ChipOp(op1, sid, seat_no, delta)
        op2 == NextId(chip_ops \cup {main_op})
    IN  [ops |-> {main_op, ChipOp(op2, sid, seat_no, 0)},
         purchases |-> {ChipPurchase(sid, seat_no, 0 - credit_to_deduct, op2, "credit"),
                        ChipPurchase(sid, seat_no, delta, op1, "cash")},
         flushed |-> {},
         total |-> seat_total + delta]

\* cash-out settled partly from credit
CashoutWithCredit(sid, seat_no, delta, credit_to_deduct, seat_total) ==
    LET op1 == NextId(chip_ops)
        main_op == ChipOp(op1, sid, seat_no, delta)
        credit_cashout == 0 - credit_to_deduct
        cash_cashout == delta + credit_to_deduct
        op2 == NextId(chip_ops \cup {main_op})
        credit_ops == IF credit_cashout # 0
                      THEN {ChipOp(op2, sid, seat_no, 0)} ELSE {}
        credit_pur == IF credit_cashout # 0
                      THEN {ChipPurchase(sid, seat_no, credit_cashout, op2, "credit")}
                      ELSE {}
        cash_pur == IF cash_cashout # 0
                    THEN {ChipPurchase(sid, seat_no, cash_cashout, op1, "cash")}
                    ELSE {}
    IN  [ops |-> {main_op} \cup credit_ops,
         purchases |-> credit_pur \cup cash_pur,
         flushed |-> {},
         total |-> seat_total + delta]

\* "if payload.credit_to_deduct and payload.credit_to_deduct > 0"
DeductsCredit(delta, credit_to_deduct) ==
    delta < 0 /\ credit_to_deduct # NULL /\ credit_to_deduct # 0 /\ credit_to_deduct > 0

\* chips_in_play set to the chips bought after every buy-in
ChipsInPlayFollowsBought(delta, total_chips_bought, current_chips_in_play) ==
    IF delta > 0 THEN total_chips_bought ELSE current_chips_in_play

\* "Auto-increment chips_in_play if total chips bought exceed current"
ChipsInPlay(delta, total_chips_bought, current_chips_in_play) ==
    IF delta > 0 /\ total_chips_bought > current_chips_in_play
    THEN total_chips_bought
    ELSE current_chips_in_play

\* credit_to_deduct is what the handler reads as payload.credit_to_deduct: an
\* integer or None (NULL).  ChipCreateIn in models/schemas.py declares no such
\* field; the handler is modelled as written, the field taken as an optional
\* integer of the request.
add_chips(sid, seat_no, amount, payment_type, credit_to_deduct) ==
    LET r == Response("add_chips", 200)
    IN
    IF sid \notin SessionIds THEN Raise(r, 404)
    ELSE IF ~SeatExists(sid, seat_no) THEN Raise(r, 404)
    ELSE
    LET seat_total == SeatRow(sid, seat_no).total
        delta == amount
        current_credit == get_seat_credit(chip_purchases, sid, seat_no)
        cash_buyin == delta > 0 /\ payment_type = "cash"
        deduct == DeductsCredit(delta, credit_to_deduct)
    IN
    IF ~cash_buyin /\ deduct
       /\ ~CashoutSplitValid(delta, credit_to_deduct, seat_total, current_credit)
    THEN Raise(r, 400)
    ELSE
    LET e == IF cash_buyin /\ current_credit > 0
                THEN BuyinWithCredit(sid, seat_no, delta, seat_total, current_credit)
             ELSE IF cash_buyin
                THEN PlainOperation(sid, seat_no, delta, seat_total, payment_type)
             ELSE IF deduct
                THEN CashoutWithCredit(sid, seat_no, delta, credit_to_deduct, seat_total)
             ELSE PlainOperation(sid, seat_no, delta, seat_total, payment_type)
        \* purchases the chips_in_play query sees (autoflush is off)
        visible == {p \in chip_purchases \cup e.flushed : p.session_id = sid}
        total_chips_bought == SumAmount(visible)
    IN
        /\ chip_ops' = chip_ops \cup e.ops
        /\ chip_purchases' = chip_purchases \cup e.purchases
        /\ seats' = [seats EXCEPT ![<<sid, seat_no>>].total = e.total]
        /\ sessions' = [sessions EXCEPT ![sid].chips_in_play =
                            ChipsInPlay(delta, total_chips_bought, @)]
        /\ resp' = r
        /\ UNCHANGED <<dealer_assignments, waiter_assignments, now, balance_adjustments, inflight>>

\* --------------------------------------------------------------- undo_last
\* the rows ordered by id ascending: the oldest operation
FirstOp(ops) == CHOOSE o \in ops : \A q \in ops : o.id <= q.id

\* .order_by(ChipOp.id.desc()).first()
LastOp(ops) == CHOOSE o \in ops : \A q \in ops : q.id <= o.id

\* what undo_last does with the operations of a seat, the purchases and the
\* total of the seat: the last operation and its purchase go, the total
\* loses the amount of the operation
UndoEffect(ops, purchases, seat_total) ==
    LET last == LastOp(ops)
    IN  [last |-> last,
         \* .filter(ChipPurchase.chip_op_id == last.id).first(); chip_op_id is unique
         purchase |-> {p \in purchases : p.chip_op_id = last.id},
         total |-> seat_total - last.amount]

undo_last(sid, seat_no) ==
    LET r == Response("undo_last", 200)
        ops == OpsOfSeat(sid, seat_no)
    IN
    IF sid \notin SessionIds THEN Raise(r, 404)
    ELSE IF ~SeatExists(sid, seat_no) THEN Raise(r, 404)
    ELSE IF ops = {} THEN Raise(r, 400)
    ELSE
    LET u == UndoEffect(ops, chip_purchases, SeatRow(sid, seat_no).total)
    IN
        /\ seats' = [seats EXCEPT ![<<sid, seat_no>>].total = u.total]
        /\ chip_purchases' = chip_purchases \ u.purchase
        /\ chip_ops' = chip_ops \ {u.last}
        /\ resp' = r
        /\ UNCHANGED <<sessions, dealer_assignments, waiter_assignments, now, balance_adjustments, inflight>>

\* ----------------------------------------------------------- assign_player
\* the history of the names (SeatNameChange) is not part of the model
assign_player(sid, seat_no, player_name) ==
    LET r == Response("assign_player", 200)
    IN
    IF sid \notin SessionIds THEN Raise(r, 404)
    ELSE IF ~SeatExists(sid, seat_no) THEN Raise(r, 404)
    ELSE
        /\ seats' = [seats EXCEPT ![<<sid, seat_no>>].player_name = player_name]
        /\ resp' = r
        /\ UNCHANGED <<sessions, chip_ops, chip_purchases, dealer_assignments,
                       waiter_assignments, now, balance_adjustments, inflight>>

\* -------------------------------------------------------------- clear_seat
clear_seat(sid, seat_no) ==
    LET r == Response("clear_seat", 200)
    IN
    IF sid \notin SessionIds THEN Raise(r, 404)
    ELSE IF ~SeatExists(sid, seat_no) THEN Raise(r, 404)
    ELSE
        \* the chip_ops rows of the seat stay
        /\ chip_purchases' = chip_purchases \ PurchasesOfSeat(sid, seat_no)
        /\ seats' = [seats EXCEPT ![<<sid, seat_no>>] =
                        [player_name |-> NULL, total |-> 0]]
        /\ resp' = r
        /\ UNCHANGED <<sessions, chip_ops, dealer_assignments,
                       waiter_assignments, now, balance_adjustments, inflight>>

\* ----------------------------------------------------------- close_session
\* the forced cash-outs, their purchases classified as credit
ForcedCashoutsOnCredit(sid) ==
    LET holding == {n \in SeatNos(sid) : SeatRow(sid, n).total > 0}
        rank(n) == Cardinality({m \in holding : m < n})
    IN  [ops |-> {ChipOp(NextId(chip_ops) + rank(n), sid, n,
                         0 - SeatRow(sid, n).total) : n \in holding},
         purchases |-> {ChipPurchase(sid, n,
                                     0 - SeatRow(sid, n).total,
                                     NextId(chip_ops) + rank(n), "credit") : n \in holding},
         holding |-> holding]

\* _cashout_seat_chips for every seat holding chips, in seat order
ForcedCashouts(sid) ==
    LET holding == {n \in SeatNos(sid) : SeatRow(sid, n).total > 0}
        rank(n) == Cardinality({m \in holding : m < n})
    IN  [ops |-> {ChipOp(NextId(chip_ops) + rank(n), sid, n,
                         0 - SeatRow(sid, n).total) : n \in holding},
         purchases |-> {ChipPurchase(sid, n,
                                     0 - SeatRow(sid, n).total,
                                     NextId(chip_ops) + rank(n), "cash") : n \in holding},
         holding |-> holding]

\* every assignment of the session stamped, the ended ones too
FinalizeEveryAssignment(sid, dealer_rakes) ==
    {IF a.session_id = sid
     THEN [a EXCEPT !.ended_at = now,
                    !.rake = IF a.id \in DOMAIN dealer_rakes
                             THEN dealer_rakes[a.id] ELSE @]
     ELSE a : a \in dealer_assignments}

\* _finalize_session, the part on session_dealer_assignments
FinalizeAssignments(sid, dealer_rakes) ==
    {IF a.session_id = sid /\ a.ended_at = NULL
     THEN [a EXCEPT !.ended_at = now,
                    !.rake = IF a.id \in DOMAIN dealer_rakes
                             THEN dealer_rakes[a.id] ELSE @]
     ELSE a : a \in dealer_assignments}

\* the waiters of the session ended with it
WaitersEndedWithSession(sid) ==
    {IF a.session_id = sid /\ a.ended_at = NULL
     THEN [a EXCEPT !.ended_at = now] ELSE a : a \in waiter_assignments}

\* _finalize_session queries and writes session_dealer_assignments only: the
\* rows of session_waiter_assignments after it are the rows before it
WaitersAfterFinalize(sid) == waiter_assignments

\* the status written without the time of the close
FinalizeStatusOnly(sid) ==
    [sessions EXCEPT ![sid].status = "closed"]

\* _finalize_session, the part on the session row
FinalizeSession(sid) ==
    [sessions EXCEPT ![sid].status = "closed",
                     ![sid].closed_at = now]

close_session(sid, dealer_rakes) ==
    LET r == Response("close_session", 200)
    IN
    IF sid \notin SessionIds THEN Raise(r, 404)
    ELSE
    LET c == ForcedCashouts(sid)
    IN
        /\ chip_ops' = chip_ops \cup c.ops
        /\ chip_purchases' = chip_purchases \cup c.purchases
        /\ seats' = [k \in DOMAIN seats |->
                        IF k[1] = sid /\ k[2] \in c.holding
                        THEN [seats[k] EXCEPT !.total = 0] ELSE seats[k]]
        /\ sessions' = FinalizeSession(sid)
        /\ dealer_assignments' = FinalizeAssignments(sid, dealer_rakes)
        /\ waiter_assignments' = WaitersAfterFinalize(sid)
        /\ resp' = [r EXCEPT !.result = sid]
        /\ UNCHANGED <<now, balance_adjustments, inflight>>

\* ---------------------------------------------------------- replace_dealer
\* the assignments of the session, the ended ones too
EveryAssignment(sid) ==
    {a \in dealer_assignments : a.session_id = sid}

ActiveAssignments(sid) ==
    {a \in dealer_assignments : a.session_id = sid /\ a.ended_at = NULL}

\* "Check new dealer is not already assigned to another open session"
ReplaceDealerAssigned(sid, new_dealer_id) ==
    \E s \in SessionIds : /\ sessions[s].status = "open"
                          /\ sessions[s].dealer_id = new_dealer_id
                          /\ s # sid

replace_dealer(sid, new_dealer_id, outgoing_dealer_rake) ==
    LET r == Response("replace_dealer", 200)
        active == ActiveAssignments(sid)
        new_assignment ==
            SessionDealerAssignment(NextId(dealer_assignments), sid,
                                    new_dealer_id, now)
    IN
    IF sid \notin SessionIds THEN Raise(r, 404)
    ELSE IF sessions[sid].status # "open" THEN Raise(r, 400)
    ELSE IF new_dealer_id \notin DealerIds THEN Raise(r, 400)
    ELSE IF ReplaceDealerAssigned(sid, new_dealer_id) THEN Raise(r, 400)
    ELSE
        /\ IF active = {}
           THEN /\ dealer_assignments' = dealer_assignments \cup {new_assignment}
                /\ resp' = r
           \* .first() without order_by: any one of the active assignments
           ELSE \E current \in active :
                /\ dealer_assignments' =
                      (dealer_assignments \ {current}) \cup
                      {[current EXCEPT !.ended_at = now,
                                       !.rake = outgoing_dealer_rake],
                       new_assignment}
                /\ resp' = r
        /\ sessions' = [sessions EXCEPT ![sid].dealer_id = new_dealer_id]
        /\ UNCHANGED <<seats, chip_ops, chip_purchases, waiter_assignments, now, balance_adjustments, inflight>>

\* -------------------------------------------------------------- add_dealer
\* "Check dealer is not assigned to another open session"
AddDealerAssigned(sid, dealer_id) ==
    \E a \in dealer_assignments :
        /\ sessions[a.session_id].status = "open"
        /\ a.dealer_id = dealer_id
        /\ a.ended_at = NULL
        /\ a.session_id # sid

\* the same test, on the dealer the session names as its primary dealer only
AddDealerIsPrimary(sid, dealer_id) ==
    sessions[sid].dealer_id = dealer_id

\* "Check if dealer is already actively assigned to this session"
AddDealerInSession(sid, dealer_id) ==
    \E a \in ActiveAssignments(sid) : a.dealer_id = dealer_id

add_dealer(sid, dealer_id) ==
    LET r == Response("add_dealer", 200)
    IN
    IF sid \notin SessionIds THEN Raise(r, 404)
    ELSE IF sessions[sid].status # "open" THEN Raise(r, 400)
    ELSE IF dealer_id \notin DealerIds THEN Raise(r, 400)
    ELSE IF AddDealerInSession(sid, dealer_id) THEN Raise(r, 400)
    ELSE IF AddDealerAssigned(sid, dealer_id) THEN Raise(r, 400)
    ELSE
        /\ dealer_assignments' = dealer_assignments \cup
                {SessionDealerAssignment(NextId(dealer_assignments), sid,
                                         dealer_id, now)}
        /\ resp' = r
        /\ UNCHANGED <<sessions, seats, chip_ops, chip_purchases,
                       waiter_assignments, now, balance_adjustments, inflight>>

\* ----------------------------------------------------------- remove_dealer
\* the same test, passed as long as one assignment is active
NoDealer(active) == Cardinality(active) <= 0

\* "Prevent removing the last dealer"
LastDealer(active) == Cardinality(active) <= 1

remove_dealer(sid, assignment_id, rake) ==
    LET r == Response("remove_dealer", 200)
        found == {a \in dealer_assignments :
                    a.id = assignment_id /\ a.session_id = sid}
        active == ActiveAssignments(sid)
    IN
    IF sid \notin SessionIds THEN Raise(r, 404)
    ELSE IF sessions[sid].status # "open" THEN Raise(r, 400)
    ELSE IF found = {} THEN Raise(r, 404)
    ELSE
    LET assignment == CHOOSE a \in found : TRUE
        others == {a \in active : a.id # assignment.id}
    IN
    IF assignment.ended_at # NULL THEN Raise(r, 400)
    ELSE IF LastDealer(active) THEN Raise(r, 400)
    ELSE
        /\ dealer_assignments' =
              (dealer_assignments \ {assignment}) \cup
              {[assignment EXCEPT !.ended_at = now, !.rake = rake]}
        \* next(a for a in active_assignments if a.id != assignment.id):
        \* the list comes from .all() without order_by
        /\ IF sessions[sid].dealer_id = assignment.dealer_id /\ others # {}
           THEN \E other \in others :
                    sessions' = [sessions EXCEPT ![sid].dealer_id = other.dealer_id]
           ELSE sessions' = sessions
        /\ resp' = r
        /\ UNCHANGED <<seats, chip_ops, chip_purchases, waiter_assignments, now, balance_adjustments, inflight>>

\* -------------------------------------------------------------- add_waiter
ActiveWaiterAssignments(sid) ==
    {a \in waiter_assignments : a.session_id = sid /\ a.ended_at = NULL}

\* the same test, on the assignments of every session
AddWaiterAnywhere(sid, waiter_id) ==
    \E a \in waiter_assignments : a.waiter_id = waiter_id /\ a.ended_at = NULL

\* "Check if waiter is already actively assigned to this session"
AddWaiterInSession(sid, waiter_id) ==
    \E a \in ActiveWaiterAssignments(sid) : a.waiter_id = waiter_id

add_waiter(sid, waiter_id) ==
    LET r == Response("add_waiter", 200)
    IN
    IF sid \notin SessionIds THEN Raise(r, 404)
    ELSE IF sessions[sid].status # "open" THEN Raise(r, 400)
    ELSE IF waiter_id \notin WaiterIds THEN Raise(r, 400)
    ELSE IF AddWaiterInSession(sid, waiter_id) THEN Raise(r, 400)
    ELSE
        /\ waiter_assignments' = waiter_assignments \cup
                {SessionWaiterAssignment(NextId(waiter_assignments), sid,
                                         waiter_id, now)}
        /\ resp' = r
        /\ UNCHANGED <<sessions, seats, chip_ops, chip_purchases,
                       dealer_assignments, now, balance_adjustments, inflight>>

\* ----------------------------------------------------------- remove_waiter
remove_waiter(sid, assignment_id) ==
    LET r == Response("remove_waiter", 200)
        found == {a \in waiter_assignments :
                    a.id = assignment_id /\ a.session_id = sid}
    IN
    IF sid \notin SessionIds THEN Raise(r, 404)
    ELSE IF sessions[sid].status # "open" THEN Raise(r, 400)
    ELSE IF found = {} THEN Raise(r, 404)
    ELSE
    LET assignment == CHOOSE a \in found : TRUE
    IN
    IF assignment.ended_at # NULL THEN Raise(r, 400)
    ELSE
        /\ waiter_assignments' =
              (waiter_assignments \ {assignment}) \cup
              {[assignment EXCEPT !.ended_at = now]}
        /\ resp' = r
        /\ UNCHANGED <<sessions, seats, chip_ops, chip_purchases,
                       dealer_assignments, now, balance_adjustments, inflight>>

\* ------------------------------------------------- rake of a closed session
\* list_closed_sessions: "Build set of ChipOp IDs that have corresponding
\* ChipPurchases"
chip_op_ids_with_purchases == {p.chip_op_id : p \in chip_purchases}

\* the end of the shift of an assignment
assignment_end(sid, assignment) ==
    IF assignment.ended_at # NULL THEN assignment.ended_at
    ELSE IF sessions[sid].closed_at # NULL THEN sessions[sid].closed_at
    ELSE now

\* the test with the end of the shift included for every assignment
CountsAsRakeInclusive(sid, assignment, op) ==
    /\ op.id \notin chip_op_ids_with_purchases
    /\ op.amount < 0
    /\ assignment.started_at <= op.created_at
    /\ op.created_at <= assignment_end(sid, assignment)

\* the test under which the loop adds abs(op.amount) to dealer_rake
CountsAsRake(sid, assignment, op) ==
    LET was_replaced == assignment.ended_at # NULL
        assignment_start == assignment.started_at
        op_time == op.created_at
    IN  /\ op.id \notin chip_op_ids_with_purchases
        /\ op.amount < 0
        /\ IF was_replaced
           THEN assignment_start <= op_time
                    /\ op_time < assignment_end(sid, assignment)
           ELSE assignment_start <= op_time
                    /\ op_time <= assignment_end(sid, assignment)

\* the rake the report of closed sessions computes for one assignment
dealer_rake(sid, assignment) ==
    0 - SumAmount({op \in chip_ops : /\ op.session_id = sid
                                     /\ CountsAsRake(sid, assignment, op)})

\* --------------------------------------------------------- get_session_rake
\* "Buyins/cashouts are money movements tracked via ChipPurchase"
total_buyins(sid) ==
    SumAmount({p \in chip_purchases : p.session_id = sid /\ p.amount > 0})

total_cashouts(sid) ==
    SumAmount({p \in chip_purchases : p.session_id = sid /\ p.amount < 0})

\* sum of all seat totals; the rows of seats differ by their key
RECURSIVE SumTotals(_, _)
SumTotals(ss, keys) ==
    IF keys = {} THEN 0
    ELSE LET k == CHOOSE x \in keys : TRUE
         IN  ss[k].total + SumTotals(ss, keys \ {k})

chips_on_table(sid) == SumTotals(seats, {k \in DOMAIN seats : k[1] = sid})

\* "buyins + cashouts - chips_on_table"
total_rake(sid) == total_buyins(sid) + total_cashouts(sid) - chips_on_table(sid)

get_session_rake(sid) ==
    LET r == Response("get_session_rake", 200)
    IN
    IF sid \notin SessionIds THEN Raise(r, 404)
    ELSE
        /\ resp' = [r EXCEPT !.result = total_rake(sid)]
        /\ UNCHANGED <<sessions, seats, chip_ops, chip_purchases,
                       dealer_assignments, waiter_assignments, now,
                       balance_adjustments, inflight>>

\* ------------------------------------------------------ close_player_credit
\* CreditService (services/credit_service.py): the credit-classified
\* purchases of a seat and their sum
get_credit_purchases_for_seat(sid, seat_no) ==
    {p \in chip_purchases : /\ p.session_id = sid
                            /\ p.seat_no = seat_no
                            /\ p.payment_type = "credit"}

calculate_total_credit(credit_purchases) == SumAmount(credit_purchases)

\* the credit left once amount is taken off the credit purchases, oldest first
RECURSIVE RemoveCredit(_, _)
RemoveCredit(credit_purchases, amount) ==
    LET bought == {p \in credit_purchases : p.amount > 0}
    IN  IF amount <= 0 \/ bought = {} THEN credit_purchases
        ELSE LET p == CHOOSE x \in bought :
                        \A y \in bought : x.chip_op_id <= y.chip_op_id
                 taken == Min2(p.amount, amount)
             IN  (IF p.amount = taken THEN {}
                  ELSE {[p EXCEPT !.amount = @ - taken]})
                    \cup RemoveCredit(credit_purchases \ {p}, amount - taken)

\* CreditService.close_credit: a balance adjustment of the amount is created
\* and the credit is removed from the session
close_credit(sid, seat_no, amount) ==
    LET credit_purchases == get_credit_purchases_for_seat(sid, seat_no)
    IN  /\ balance_adjustments' =
              Append(balance_adjustments,
                     [id |-> Len(balance_adjustments) + 1, amount |-> amount])
        /\ chip_purchases' = (chip_purchases \ credit_purchases)
                                \cup RemoveCredit(credit_purchases, amount)

\* the amount compared with twice the credit
ExceedsTwiceCredit(amount, total_credit) == amount > total_credit + total_credit

\* payload.amount > total_credit
ExceedsCredit(amount, total_credit) == amount > total_credit

\* the table-access check is left out: the caller is a superadmin
close_player_credit(sid, seat_no, amount) ==
    LET r == Response("close_player_credit", 200)
    IN
    IF sid \notin SessionIds THEN Raise(r, 404)
    ELSE IF sessions[sid].status # "closed" THEN Raise(r, 400)
    ELSE IF ~SeatExists(sid, seat_no) THEN Raise(r, 404)
    ELSE
    LET total_credit ==
            calculate_total_credit(get_credit_purchases_for_seat(sid, seat_no))
    IN
    IF total_credit = 0 THEN Raise(r, 400)
    ELSE IF ExceedsCredit(amount, total_credit) THEN Raise(r, 400)
    ELSE
        /\ close_credit(sid, seat_no, amount)
        /\ resp' = [r EXCEPT !.result = Len(balance_adjustments) + 1]
        /\ UNCHANGED <<sessions, seats, chip_ops, dealer_assignments,
                       waiter_assignments, now, inflight>>

\* --------------------------------------------- requests running side by side
\* the request of the slot is answered: its thread is free again
Answer(slot, r) ==
    /\ resp' = r
    /\ inflight' = [inflight EXCEPT ![slot] = Idle]

\* raise HTTPException(status) or rollback: nothing is committed
Reject(slot, r, status) ==
    /\ Answer(slot, [r EXCEPT !.status = status])
    /\ UNCHANGED <<sessions, seats, chip_ops, chip_purchases,
                   dealer_assignments, waiter_assignments, now, balance_adjustments>>

\* a request is taken by the first thread that is free
FirstFree(slot) ==
    /\ inflight[slot] = Idle
    /\ \A k \in RequestSlots : k < slot => inflight[k] # Idle

\* the rows every request under way has flushed and not committed yet
PendingOps ==
    UNION {IF inflight[k].op = "close_session" THEN inflight[k].ops ELSE {} :
                k \in RequestSlots}

\* ------------------------------------------- close_session, step by step
\* the rows sent by db.flush() are seen by the other transactions at once
SeenAtFlush(rows) == rows

\* db.flush() sends the INSERT inside the transaction: no other transaction
\* sees the rows before db.commit()
SeenBeforeCommit(rows) == {}

\* _validate_and_get_session and _get_session_seats: the seats as loaded
close_session_query(slot, sid, dealer_rakes) ==
    LET r == Response("close_session", 200)
    IN
    /\ inflight[slot] = Idle
    /\ IF sid \notin SessionIds THEN Reject(slot, r, 404)
       ELSE /\ inflight' = [inflight EXCEPT ![slot] =
                    [op |-> "close_session", sid |-> sid,
                     dealer_rakes |-> dealer_rakes,
                     totals |-> [n \in SeatNos(sid) |-> SeatRow(sid, n).total],
                     flushed |-> FALSE, ops |-> {}, purchases |-> {}]]
            /\ UNCHANGED <<sessions, seats, chip_ops, chip_purchases,
                           dealer_assignments, waiter_assignments, now, balance_adjustments, resp>>

\* the loop over the seats: _cashout_seat_chips adds and flushes one chip
\* operation and adds one cash purchase for every seat loaded with chips
close_session_cashout(slot) ==
    LET t == inflight[slot]
        holding == {n \in DOMAIN t.totals : t.totals[n] > 0}
        rank(n) == Cardinality({m \in holding : m < n})
        first == NextId(chip_ops \cup PendingOps)
        ops == {ChipOp(first + rank(n), t.sid, n, 0 - t.totals[n]) : n \in holding}
        purchases == {ChipPurchase(t.sid, n, 0 - t.totals[n], first + rank(n), "cash") :
                            n \in holding}
    IN
    /\ t.op = "close_session"
    /\ ~t.flushed
    /\ holding # {}
    /\ inflight' = [inflight EXCEPT ![slot].flushed = TRUE,
                                    ![slot].ops = ops,
                                    ![slot].purchases = purchases]
    /\ chip_ops' = chip_ops \cup SeenBeforeCommit(ops)
    /\ chip_purchases' = chip_purchases \cup SeenBeforeCommit(purchases)
    /\ UNCHANGED <<sessions, seats, dealer_assignments, waiter_assignments,
                   now, balance_adjustments, resp>>

\* _finalize_session and db.commit(): the seats set to 0, the session and its
\* assignments are written with the rows flushed before
close_session_commit(slot) ==
    LET t == inflight[slot]
        r == Response("close_session", 200)
        holding == {n \in DOMAIN t.totals : t.totals[n] > 0}
    IN
    /\ t.op = "close_session"
    /\ t.flushed \/ holding = {}
    /\ chip_ops' = chip_ops \cup t.ops
    /\ chip_purchases' = chip_purchases \cup t.purchases
    /\ seats' = [k \in DOMAIN seats |->
                    IF k[1] = t.sid /\ k[2] \in holding
                    THEN [seats[k] EXCEPT !.total = 0] ELSE seats[k]]
    /\ sessions' = FinalizeSession(t.sid)
    /\ dealer_assignments' = FinalizeAssignments(t.sid, t.dealer_rakes)
    /\ waiter_assignments' = WaitersAfterFinalize(t.sid)
    /\ Answer(slot, [r EXCEPT !.result = t.sid])
    /\ UNCHANGED <<now, balance_adjustments>>

\* -------------------------------------------- create_session, in two steps
\* the queries of create_session, up to the first db.add()
create_session_query(slot, table_id, dealer_id, waiter_id, seats_count, chips_in_play) ==
    LET r == Response("create_session", 200)
        open == OpenSessionsOfTable(table_id)
        latest == {s \in open : \A t \in open :
                        sessions[t].created_at <= sessions[s].created_at}
    IN
    /\ inflight[slot] = Idle
    /\ IF table_id \notin TableIds THEN Reject(slot, r, 404)
       ELSE IF open # {} THEN
            \E existing \in latest :
                /\ Answer(slot, [r EXCEPT !.result = existing])
                /\ UNCHANGED <<sessions, seats, chip_ops, chip_purchases,
                               dealer_assignments, waiter_assignments, now, balance_adjustments>>
       ELSE IF dealer_id = NULL THEN Reject(slot, r, 400)
       ELSE IF dealer_id \notin DealerIds THEN Reject(slot, r, 400)
       ELSE IF \E s \in SessionIds : /\ sessions[s].status = "open"
                                     /\ sessions[s].dealer_id = dealer_id
            THEN Reject(slot, r, 400)
       ELSE IF waiter_id # NULL /\ waiter_id \notin WaiterIds
            THEN Reject(slot, r, 400)
       ELSE /\ inflight' = [inflight EXCEPT ![slot] =
                    [op |-> "create_session", table_id |-> table_id,
                     dealer_id |-> dealer_id, waiter_id |-> waiter_id,
                     seats_count |-> seats_count,
                     chips_in_play |-> chips_in_play]]
            /\ UNCHANGED <<sessions, seats, chip_ops, chip_purchases,
                           dealer_assignments, waiter_assignments, now, balance_adjustments, resp>>

\* the rows of the new session, added and committed
create_session_commit(slot) ==
    LET t == inflight[slot]
        r == Response("create_session", 200)
        sid == Len(sessions) + 1
    IN
    /\ t.op = "create_session"
    /\ sessions' = Append(sessions,
            [table_id |-> t.table_id, status |-> "open", created_at |-> now,
             closed_at |-> NULL, dealer_id |-> t.dealer_id,
             waiter_id |-> t.waiter_id, chips_in_play |-> t.chips_in_play])
    /\ dealer_assignments' = dealer_assignments \cup
            {SessionDealerAssignment(NextId(dealer_assignments), sid,
                                     t.dealer_id, now)}
    /\ waiter_assignments' =
            IF t.waiter_id # NULL
            THEN waiter_assignments \cup
                    {SessionWaiterAssignment(NextId(waiter_assignments),
                                             sid, t.waiter_id, now)}
            ELSE waiter_assignments
    /\ seats' = [k \in DOMAIN seats \cup {<<sid, n>> : n \in 1..t.seats_count} |->
                    IF k \in DOMAIN seats THEN seats[k]
                    ELSE [player_name |-> NULL, total |-> 0]]
    /\ Answer(slot, [r EXCEPT !.result = sid])
    /\ UNCHANGED <<chip_ops, chip_purchases, now, balance_adjustments>>

\* ------------------------------------------------ add_dealer, in two steps
add_dealer_query(slot, sid, dealer_id) ==
    LET r == Response("add_dealer", 200)
    IN
    /\ inflight[slot] = Idle
    /\ IF sid \notin SessionIds THEN Reject(slot, r, 404)
       ELSE IF sessions[sid].status # "open" THEN Reject(slot, r, 400)
       ELSE IF dealer_id \notin DealerIds THEN Reject(slot, r, 400)
       ELSE IF AddDealerInSession(sid, dealer_id) THEN Reject(slot, r, 400)
       ELSE IF AddDealerAssigned(sid, dealer_id) THEN Reject(slot, r, 400)
       ELSE /\ inflight' = [inflight EXCEPT ![slot] =
                    [op |-> "add_dealer", sid |-> sid, dealer_id |-> dealer_id]]
            /\ UNCHANGED <<sessions, seats, chip_ops, chip_purchases,
                           dealer_assignments, waiter_assignments, now, balance_adjustments, resp>>

add_dealer_commit(slot) ==
    LET t == inflight[slot]
    IN
    /\ t.op = "add_dealer"
    /\ dealer_assignments' = dealer_assignments \cup
            {SessionDealerAssignment(NextId(dealer_assignments), t.sid,
                                     t.dealer_id, now)}
    /\ Answer(slot, Response("add_dealer", 200))
    /\ UNCHANGED <<sessions, seats, chip_ops, chip_purchases,
                   waiter_assignments, now, balance_adjustments>>

\* -------------------------------------------- replace_dealer, in two steps
replace_dealer_query(slot, sid, new_dealer_id, outgoing_dealer_rake) ==
    LET r == Response("replace_dealer", 200)
        active == ActiveAssignments(sid)
        queried(current) ==
            /\ inflight' = [inflight EXCEPT ![slot] =
                    [op |-> "replace_dealer", sid |-> sid,
                     dealer_id |-> new_dealer_id,
                     rake |-> outgoing_dealer_rake, current |-> current]]
            /\ UNCHANGED <<sessions, seats, chip_ops, chip_purchases,
                           dealer_assignments, waiter_assignments, now, balance_adjustments, resp>>
    IN
    /\ inflight[slot] = Idle
    /\ IF sid \notin SessionIds THEN Reject(slot, r, 404)
       ELSE IF sessions[sid].status # "open" THEN Reject(slot, r, 400)
       ELSE IF new_dealer_id \notin DealerIds THEN Reject(slot, r, 400)
       ELSE IF ReplaceDealerAssigned(sid, new_dealer_id) THEN Reject(slot, r, 400)
       ELSE IF active = {} THEN queried(NULL)
       \* .first() without order_by: any one of the active assignments
       ELSE \E current \in active : queried(current.id)

\* the assignment loaded is ended, the new one added, the session updated
replace_dealer_commit(slot) ==
    LET t == inflight[slot]
        new_assignment ==
            SessionDealerAssignment(NextId(dealer_assignments), t.sid,
                                    t.dealer_id, now)
    IN
    /\ t.op = "replace_dealer"
    /\ dealer_assignments' =
            {IF a.id = t.current
             THEN [a EXCEPT !.ended_at = now, !.rake = t.rake]
             ELSE a : a \in dealer_assignments} \cup {new_assignment}
    /\ sessions' = [sessions EXCEPT ![t.sid].dealer_id = t.dealer_id]
    /\ Answer(slot, Response("replace_dealer", 200))
    /\ UNCHANGED <<seats, chip_ops, chip_purchases, waiter_assignments, now, balance_adjustments>>

\* ------------------------------------------------- add_chips, in two steps
\* the session, the seat and its credit as loaded, and the validation of a
\* cash-out with credit deduction
add_chips_query(slot, sid, seat_no, amount, payment_type, credit_to_deduct) ==
    LET r == Response("add_chips", 200)
    IN
    /\ inflight[slot] = Idle
    /\ IF sid \notin SessionIds THEN Reject(slot, r, 404)
       ELSE IF ~SeatExists(sid, seat_no) THEN Reject(slot, r, 404)
       ELSE
       LET seat_total == SeatRow(sid, seat_no).total
           current_credit == get_seat_credit(chip_purchases, sid, seat_no)
           cash_buyin == amount > 0 /\ payment_type = "cash"
       IN
       IF ~cash_buyin /\ DeductsCredit(amount, credit_to_deduct)
          /\ ~CashoutSplitValid(amount, credit_to_deduct, seat_total,
                                current_credit)
       THEN Reject(slot, r, 400)
       ELSE /\ inflight' = [inflight EXCEPT ![slot] =
                    [op |-> "add_chips", sid |-> sid, seat_no |-> seat_no,
                     amount |-> amount, payment_type |-> payment_type,
                     credit_to_deduct |-> credit_to_deduct,
                     seat_total |-> seat_total,
                     current_credit |-> current_credit]]
            /\ UNCHANGED <<sessions, seats, chip_ops, chip_purchases,
                           dealer_assignments, waiter_assignments, now, balance_adjustments, resp>>

\* seat.total is assigned from the total loaded, the rows are flushed and
\* committed
add_chips_commit(slot) ==
    LET t == inflight[slot]
        delta == t.amount
        cash_buyin == delta > 0 /\ t.payment_type = "cash"
        deduct == DeductsCredit(delta, t.credit_to_deduct)
        e == IF cash_buyin /\ t.current_credit > 0
                THEN BuyinWithCredit(t.sid, t.seat_no, delta, t.seat_total,
                                     t.current_credit)
             ELSE IF cash_buyin
                THEN PlainOperation(t.sid, t.seat_no, delta, t.seat_total,
                                    t.payment_type)
             ELSE IF deduct
                THEN CashoutWithCredit(t.sid, t.seat_no, delta,
                                       t.credit_to_deduct, t.seat_total)
             ELSE PlainOperation(t.sid, t.seat_no, delta, t.seat_total,
                                 t.payment_type)
        visible == {p \in chip_purchases \cup e.flushed : p.session_id = t.sid}
        total_chips_bought == SumAmount(visible)
    IN
    /\ t.op = "add_chips"
    /\ chip_ops' = chip_ops \cup e.ops
    /\ chip_purchases' = chip_purchases \cup e.purchases
    /\ seats' = [seats EXCEPT ![<<t.sid, t.seat_no>>].total = e.total]
    /\ sessions' = [sessions EXCEPT ![t.sid].chips_in_play =
                        ChipsInPlay(delta, total_chips_bought, @)]
    /\ Answer(slot, Response("add_chips", 200))
    /\ UNCHANGED <<dealer_assignments, waiter_assignments, now, balance_adjustments>>

\* ------------------------------------------------- undo_last, in two steps
\* the seat and its last chip operation as loaded
undo_last_query(slot, sid, seat_no) ==
    LET r == Response("undo_last", 200)
        ops == OpsOfSeat(sid, seat_no)
    IN
    /\ inflight[slot] = Idle
    /\ IF sid \notin SessionIds THEN Reject(slot, r, 404)
       ELSE IF ~SeatExists(sid, seat_no) THEN Reject(slot, r, 404)
       ELSE IF ops = {} THEN Reject(slot, r, 400)
       ELSE /\ inflight' = [inflight EXCEPT ![slot] =
                    [op |-> "undo_last", sid |-> sid, seat_no |-> seat_no,
                     seat_total |-> SeatRow(sid, seat_no).total,
                     last |-> LastOp(ops)]]
            /\ UNCHANGED <<sessions, seats, chip_ops, chip_purchases,
                           dealer_assignments, waiter_assignments, now, balance_adjustments, resp>>

\* seat.total is assigned from the total loaded, the operation loaded and its
\* purchase are deleted
undo_last_commit(slot) ==
    LET t == inflight[slot]
        purchase == {p \in chip_purchases : p.chip_op_id = t.last.id}
    IN
    /\ t.op = "undo_last"
    /\ seats' = [seats EXCEPT ![<<t.sid, t.seat_no>>].total =
                                    t.seat_total - t.last.amount]
    /\ chip_purchases' = chip_purchases \ purchase
    /\ chip_ops' = chip_ops \ {t.last}
    /\ Answer(slot, Response("undo_last", 200))
    /\ UNCHANGED <<sessions, dealer_assignments, waiter_assignments, now, balance_adjustments>>

\* ------------------------------------------------ hours of a waiter (report)
\* the intervals of the sessions served by the waiter, in the order of the list
RECURSIVE WaiterIntervals(_, _)
WaiterIntervals(list, waiter_id) ==
    IF list = <<>> THEN <<>>
    ELSE LET s == Head(list)
             start == s.created_at
             end == IF s.closed_at # NULL THEN s.closed_at ELSE now
         IN  IF s.waiter_id # waiter_id
             THEN WaiterIntervals(Tail(list), waiter_id)
             ELSE <<<<start, end>>>> \o WaiterIntervals(Tail(list), waiter_id)

\* the intervals left in the order of the list
Unsorted(intervals) == intervals

\* intervals.sort(key=lambda x: x[0]): stable, by start only
RECURSIVE SortByStart(_)
SortByStart(intervals) ==
    IF intervals = <<>> THEN <<>>
    ELSE LET first == CHOOSE i \in DOMAIN intervals :
                        \A j \in DOMAIN intervals :
                            \/ intervals[i][1] < intervals[j][1]
                            \/ intervals[i][1] = intervals[j][1] /\ i <= j
             rest == [k \in 1..(Len(intervals) - 1) |->
                        IF k < first THEN intervals[k] ELSE intervals[k + 1]]
         IN  <<intervals[first]>> \o SortByStart(rest)

\* the loop over intervals[1:]: extend the last merged interval or append
RECURSIVE MergeIntervals(_, _)
MergeIntervals(merged, rest) ==
    IF rest = <<>> THEN merged
    ELSE LET start == Head(rest)[1]
             end == Head(rest)[2]
             last_start == merged[Len(merged)][1]
             last_end == merged[Len(merged)][2]
         IN  IF start <= last_end
             THEN MergeIntervals(
                    [merged EXCEPT ![Len(merged)] = <<last_start, Max2(last_end, end)>>],
                    Tail(rest))
             ELSE MergeIntervals(Append(merged, <<start, end>>), Tail(rest))

RECURSIVE TotalSeconds(_)
TotalSeconds(merged) ==
    IF merged = <<>> THEN 0
    ELSE (Head(merged)[2] - Head(merged)[1]) * SecondsPerHour
            + TotalSeconds(Tail(merged))

\* _calculate_waiter_hours(sessions, waiter_id)
calculate_waiter_hours(list, waiter_id) ==
    LET intervals == WaiterIntervals(list, waiter_id)
    IN  IF intervals = <<>> THEN 0
        ELSE LET sorted == SortByStart(intervals)
                 merged == MergeIntervals(<<sorted[1]>>, Tail(sorted))
             IN  TotalSeconds(merged) \div SecondsPerHour

\* the report asks for the hours of a waiter over the sessions of the day,
\* which the query returns in some order
SessionLists ==
    {order \in [1..Len(sessions) -> SessionIds] :
        \A i, j \in 1..Len(sessions) : order[i] = order[j] => i = j}

waiter_hours(order, waiter_id) ==
    /\ resp' = [Response("waiter_hours", 200) EXCEPT !.result =
                    calculate_waiter_hours(
                        [i \in 1..Len(sessions) |-> sessions[order[i]]], waiter_id)]
    /\ UNCHANGED <<sessions, seats, chip_ops, chip_purchases,
                   dealer_assignments, waiter_assignments, now, balance_adjustments, inflight>>

\* ------------------------------------------------------------ request sets
\* amounts of a chip request: a buy-in or a cash-out
Amounts == ((0 - MaxAmount)..MaxAmount) \ {0}
PaymentTypes == {"cash", "credit"}
\* credit_to_deduct: omitted, negative, zero or positive
CreditToDeduct == {NULL} \cup ((0 - 1)..MaxAmount)
Rakes == 0..MaxRake
AssignmentIds == {a.id : a \in dealer_assignments}
\* dealer_rakes of CloseSessionIn: a rake for some of the session's assignments
DealerRakes(sid) ==
    UNION {[ids -> Rakes] :
            ids \in SUBSET {a.id : a \in {x \in dealer_assignments : x.session_id = sid}}}

\* the seat totals the ledger models follow
TotalInRange(t) == (0 - MaxTotal) <= t /\ t <= MaxTotal
TotalsInRange(ss) == \A k \in DOMAIN ss : TotalInRange(ss[k].total)

\* payment_type is read only for a buy-in, credit_to_deduct only for a cash-out
ChipRequests(amounts, deducts) ==
    {q \in [amount : amounts, payment_type : PaymentTypes, credit_to_deduct : deducts] :
        /\ q.amount < 0 => q.payment_type = "cash"
        /\ q.amount > 0 => q.credit_to_deduct = NULL}

\* ----------------------------------------------------- the ledger of a seat
\* One table, one dealer, one seat: chips are bought, cashed out and undone
\* (SpecChips); the seat may also be cleared and the session closed
\* (SpecLedger).
LedgerCreate ==
    /\ Len(sessions) < 1
    /\ create_session(1, 1, NULL, 1, 0)

LedgerAddChips ==
    \E sid \in SessionIds, q \in ChipRequests(Amounts, CreditToDeduct) :
        /\ NextId(chip_ops) <= MaxOps
        /\ add_chips(sid, 1, q.amount, q.payment_type, q.credit_to_deduct)
        /\ TotalsInRange(seats')

LedgerUndo ==
    \E sid \in SessionIds :
        /\ undo_last(sid, 1)
        /\ TotalsInRange(seats')

LedgerClear ==
    \E sid \in SessionIds : clear_seat(sid, 1)

LedgerClose ==
    \E sid \in SessionIds : close_session(sid, <<>>)

NextChips ==
    \/ LedgerCreate
    \/ LedgerAddChips
    \/ LedgerUndo

SpecChips == Init /\ [][NextChips]_vars

NextLedger ==
    \/ LedgerCreate
    \/ LedgerAddChips
    \/ LedgerUndo
    \/ LedgerClear
    \/ LedgerClose

SpecLedger == Init /\ [][NextLedger]_vars

\* ------------------------------------------------ the ledger of several seats
\* One table and one dealer, MaxSeats seats, chips moved one at a time and
\* undone seat by seat.
SeatsCreate ==
    /\ Len(sessions) < 1
    /\ create_session(1, 1, NULL, MaxSeats, 0)

SeatsAddChips ==
    \E sid \in SessionIds, seat_no \in 1..MaxSeats,
       q \in ChipRequests({0 - 1, 1}, {NULL, 1}) :
        /\ NextId(chip_ops) <= MaxOps
        /\ add_chips(sid, seat_no, q.amount, q.payment_type, q.credit_to_deduct)
        /\ TotalsInRange(seats')

SeatsUndo ==
    \E sid \in SessionIds, seat_no \in 1..MaxSeats :
        /\ undo_last(sid, seat_no)
        /\ TotalsInRange(seats')

NextSeats ==
    \/ SeatsCreate
    \/ SeatsAddChips
    \/ SeatsUndo

SpecSeats == Init /\ [][NextSeats]_vars

\* ------------------------------------------------------ the floor of a table
\* One table with MaxSeats seats: chips are moved and undone, a seat is
\* cleared once its chips are cashed out, and the session is closed.
FloorCreate ==
    /\ Len(sessions) < 1
    /\ create_session(1, 1, NULL, MaxSeats, 0)

FloorAddChips ==
    \E sid \in SessionIds, seat_no \in 1..MaxSeats,
       q \in ChipRequests({0 - 1, 1}, {NULL, 1}) :
        /\ NextId(chip_ops) <= MaxOps
        /\ add_chips(sid, seat_no, q.amount, q.payment_type, q.credit_to_deduct)
        /\ TotalsInRange(seats')

FloorUndo ==
    \E sid \in SessionIds, seat_no \in 1..MaxSeats :
        /\ undo_last(sid, seat_no)
        /\ TotalsInRange(seats')

FloorClear ==
    \E sid \in SessionIds, seat_no \in 1..MaxSeats :
        /\ SeatExists(sid, seat_no) => seats[<<sid, seat_no>>].total = 0
        /\ clear_seat(sid, seat_no)

FloorClose ==
    \E sid \in SessionIds :
        /\ sessions[sid].status = "open"
        /\ close_session(sid, <<>>)

NextFloor ==
    \/ FloorCreate
    \/ FloorAddChips
    \/ FloorUndo
    \/ FloorClear
    \/ FloorClose

SpecFloor == Init /\ [][NextFloor]_vars

\* ---------------------------------------------------- the players of a table
\* One table with MaxSeats seats: players sit down, buy chips in cash or on
\* credit, cash out, and leave whatever their seat holds.
\* the names are numbered
PlayerNames == {1}

PlayersCreate ==
    /\ Len(sessions) < 1
    /\ create_session(1, 1, NULL, MaxSeats, 0)

PlayersAssign ==
    \E sid \in SessionIds, seat_no \in 1..MaxSeats, player_name \in PlayerNames :
        assign_player(sid, seat_no, player_name)

PlayersAddChips ==
    \E sid \in SessionIds, seat_no \in 1..MaxSeats,
       q \in ChipRequests({0 - 1, 1}, {NULL, 1}) :
        /\ NextId(chip_ops) <= MaxOps
        /\ add_chips(sid, seat_no, q.amount, q.payment_type, q.credit_to_deduct)
        /\ TotalsInRange(seats')

PlayersClear ==
    \E sid \in SessionIds, seat_no \in 1..MaxSeats :
        clear_seat(sid, seat_no)

NextPlayers ==
    \/ PlayersCreate
    \/ PlayersAssign
    \/ PlayersAddChips
    \/ PlayersClear

SpecPlayers == Init /\ [][NextPlayers]_vars

\* ------------------------------------------------------ the debts of a seat
\* One table with one seat: chips are bought in cash and on credit and cashed
\* out, the session is closed, and the credit of the seat is closed in one
\* or several payments.
DebtsCreate ==
    /\ Len(sessions) < 1
    /\ create_session(1, 1, NULL, 1, 0)

DebtsAddChips ==
    \E sid \in SessionIds, q \in ChipRequests(Amounts, CreditToDeduct) :
        /\ sessions[sid].status = "open"
        /\ NextId(chip_ops) <= MaxOps
        /\ add_chips(sid, 1, q.amount, q.payment_type, q.credit_to_deduct)
        /\ TotalsInRange(seats')

DebtsClose ==
    \E sid \in SessionIds :
        /\ sessions[sid].status = "open"
        /\ close_session(sid, <<>>)

\* CloseCreditIn: amount > 0
DebtsCloseCredit ==
    \E sid \in SessionIds, amount \in 1..MaxAmount :
        close_player_credit(sid, 1, amount)

NextDebts ==
    \/ DebtsCreate
    \/ DebtsAddChips
    \/ DebtsClose
    \/ DebtsCloseCredit

SpecDebts == Init /\ [][NextDebts]_vars

\* ------------------------------------------------------- the rake of a table
\* One table with MaxSeats seats: chips are bought in cash and on credit and
\* cashed out, and the rake of the session is asked for.
RakeCreate ==
    /\ Len(sessions) < 1
    /\ create_session(1, 1, NULL, MaxSeats, 0)

RakeAddChips ==
    \E sid \in SessionIds, seat_no \in 1..MaxSeats,
       q \in ChipRequests(Amounts, CreditToDeduct) :
        /\ NextId(chip_ops) <= MaxOps
        /\ add_chips(sid, seat_no, q.amount, q.payment_type, q.credit_to_deduct)
        /\ TotalsInRange(seats')

RakeReport ==
    \E sid \in SessionIds : get_session_rake(sid)

NextRake ==
    \/ RakeCreate
    \/ RakeAddChips
    \/ RakeReport

SpecRake == Init /\ [][NextRake]_vars

\* ------------------------------------------------- the sessions of the tables
\* Sessions are opened and closed; nothing else is requested.
SessionsCreate ==
    \E table_id \in TableIds, dealer_id \in DealerIds \cup {NULL},
       waiter_id \in WaiterIds \cup {NULL} :
        /\ Len(sessions) < MaxSessions \/ OpenSessionsOfTable(table_id) # {}
        /\ create_session(table_id, dealer_id, waiter_id, 1, 0)

SessionsClose ==
    \E sid \in SessionIds : close_session(sid, <<>>)

NextSessions ==
    \/ SessionsCreate
    \/ SessionsClose

SpecSessions == Init /\ [][NextSessions]_vars

\* ------------------------------------------------- the shifts of the dealers
\* Several tables and dealers; the requests are those on sessions and dealers.
StaffCreate ==
    \E table_id \in TableIds, dealer_id \in DealerIds \cup {NULL},
       waiter_id \in WaiterIds \cup {NULL} :
        /\ Len(sessions) < MaxSessions \/ OpenSessionsOfTable(table_id) # {}
        /\ create_session(table_id, dealer_id, waiter_id, 1, 0)

StaffAddDealer ==
    \E sid \in SessionIds, dealer_id \in DealerIds :
        /\ Cardinality(dealer_assignments) < MaxAssign
        /\ add_dealer(sid, dealer_id)

StaffReplaceDealer ==
    \E sid \in SessionIds, new_dealer_id \in DealerIds, rake \in Rakes :
        /\ Cardinality(dealer_assignments) < MaxAssign
        /\ replace_dealer(sid, new_dealer_id, rake)

StaffRemoveDealer ==
    \E sid \in SessionIds, assignment_id \in AssignmentIds, rake \in Rakes :
        remove_dealer(sid, assignment_id, rake)

StaffClose ==
    \E sid \in SessionIds : \E dealer_rakes \in DealerRakes(sid) :
        close_session(sid, dealer_rakes)

NextStaff ==
    \/ StaffCreate
    \/ StaffAddDealer
    \/ StaffReplaceDealer
    \/ StaffRemoveDealer
    \/ StaffClose

SpecStaff == Init /\ [][NextStaff]_vars

\* --------------------------------------------------- the seats at the close
\* One table and one dealer, MaxSeats seats, chips moved one at a time; the
\* session is closed with chips and credit on the seats.
TillClose ==
    \E sid \in SessionIds : close_session(sid, <<>>)

NextTill ==
    \/ SeatsCreate
    \/ SeatsAddChips
    \/ TillClose

SpecTill == Init /\ [][NextTill]_vars

\* ---------------------------------------------- the close seen from outside
\* One table and one seat; chips are bought and dealers join in requests of
\* their own while close_session requests go through their steps.
ClosingCreate ==
    /\ Len(sessions) < 1
    /\ create_session(1, 1, NULL, 1, 0)

ClosingBuyin ==
    \E sid \in SessionIds :
        /\ NextId(chip_ops \cup PendingOps) <= MaxOps
        /\ add_chips(sid, 1, 1, "cash", NULL)
        /\ TotalsInRange(seats')

ClosingAddDealer ==
    \E sid \in SessionIds, dealer_id \in DealerIds :
        /\ Cardinality(dealer_assignments) < MaxAssign
        /\ add_dealer(sid, dealer_id)

ClosingQuery ==
    \E slot \in RequestSlots, sid \in SessionIds :
        /\ FirstFree(slot)
        /\ close_session_query(slot, sid, <<>>)

ClosingCashout ==
    \E slot \in RequestSlots : close_session_cashout(slot)

ClosingCommit ==
    \E slot \in RequestSlots : close_session_commit(slot)

NextClosing ==
    \/ ClosingCreate
    \/ ClosingBuyin
    \/ ClosingAddDealer
    \/ ClosingQuery
    \/ ClosingCashout
    \/ ClosingCommit

SpecClosing == Init /\ [][NextClosing]_vars

\* ------------------------------------------------ the requests that race
\* Sessions are created and dealers join and are replaced by requests whose
\* queries and commits interleave.
CreatesUnderWay ==
    Cardinality({k \in RequestSlots : inflight[k].op = "create_session"})
AssignmentsUnderWay ==
    Cardinality({k \in RequestSlots :
                    inflight[k].op \in {"add_dealer", "replace_dealer"}})

RaceCreateQuery ==
    \E slot \in RequestSlots, table_id \in TableIds, dealer_id \in DealerIds :
        /\ FirstFree(slot)
        /\ Len(sessions) + CreatesUnderWay < MaxSessions
        /\ create_session_query(slot, table_id, dealer_id, NULL, 1, 0)

RaceCreateCommit ==
    \E slot \in RequestSlots : create_session_commit(slot)

RaceAddDealerQuery ==
    \E slot \in RequestSlots, sid \in SessionIds, dealer_id \in DealerIds :
        /\ FirstFree(slot)
        /\ Cardinality(dealer_assignments) + AssignmentsUnderWay <= MaxAssign
        /\ add_dealer_query(slot, sid, dealer_id)

RaceAddDealerCommit ==
    \E slot \in RequestSlots : add_dealer_commit(slot)

RaceReplaceDealerQuery ==
    \E slot \in RequestSlots, sid \in SessionIds, new_dealer_id \in DealerIds :
        /\ FirstFree(slot)
        /\ Cardinality(dealer_assignments) + AssignmentsUnderWay <= MaxAssign
        /\ replace_dealer_query(slot, sid, new_dealer_id, MaxRake)

RaceReplaceDealerCommit ==
    \E slot \in RequestSlots : replace_dealer_commit(slot)

NextRace ==
    \/ RaceCreateQuery
    \/ RaceCreateCommit
    \/ RaceAddDealerQuery
    \/ RaceAddDealerCommit
    \/ RaceReplaceDealerQuery
    \/ RaceReplaceDealerCommit

SpecRace == Init /\ [][NextRace]_vars

\* ------------------------------------------------ the requests on one seat
\* One table, one dealer, one seat; chips are added by requests whose queries
\* and commits interleave, with one another and with one undo at a time.
AddChipsUnderWay ==
    Cardinality({k \in RequestSlots : inflight[k].op = "add_chips"})

SeatRaceAddChipsQuery ==
    \E slot \in RequestSlots, sid \in SessionIds,
       q \in ChipRequests({0 - 1, 1}, {NULL, 1}) :
        /\ FirstFree(slot)
        /\ NextId(chip_ops) + AddChipsUnderWay <= MaxOps
        /\ add_chips_query(slot, sid, 1, q.amount, q.payment_type,
                           q.credit_to_deduct)

SeatRaceAddChipsCommit ==
    \E slot \in RequestSlots :
        /\ add_chips_commit(slot)
        /\ TotalsInRange(seats')

SeatRaceUndoQuery ==
    \E slot \in RequestSlots, sid \in SessionIds :
        /\ FirstFree(slot)
        /\ \A k \in RequestSlots : inflight[k].op # "undo_last"
        /\ undo_last_query(slot, sid, 1)

SeatRaceUndoCommit ==
    \E slot \in RequestSlots :
        /\ undo_last_commit(slot)
        /\ TotalsInRange(seats')

NextSeatRace ==
    \/ LedgerCreate
    \/ SeatRaceAddChipsQuery
    \/ SeatRaceAddChipsCommit
    \/ SeatRaceUndoQuery
    \/ SeatRaceUndoCommit

SpecSeatRace == Init /\ [][NextSeatRace]_vars

\* ------------------------------------------------------ the dealers' table
\* The tables open one after the other, each once and without a waiter;
\* dealers join, are replaced and leave with the largest rake, and open
\* sessions are closed.
DealersCreate ==
    \E dealer_id \in DealerIds :
        /\ Len(sessions) < NumTables
        /\ create_session(Len(sessions) + 1, dealer_id, NULL, 1, 0)

DealersAddDealer ==
    \E sid \in SessionIds, dealer_id \in DealerIds :
        /\ Cardinality(dealer_assignments) <= MaxAssign
        /\ add_dealer(sid, dealer_id)

DealersReplaceDealer ==
    \E sid \in SessionIds, new_dealer_id \in DealerIds :
        /\ Cardinality(dealer_assignments) <= MaxAssign
        /\ replace_dealer(sid, new_dealer_id, MaxRake)

DealersRemoveDealer ==
    \E sid \in SessionIds, assignment_id \in AssignmentIds :
        remove_dealer(sid, assignment_id, MaxRake)

DealersClose ==
    \E sid \in SessionIds :
        /\ sessions[sid].status = "open"
        /\ close_session(sid, <<>>)

NextDealers ==
    \/ DealersCreate
    \/ DealersAddDealer
    \/ DealersReplaceDealer
    \/ DealersRemoveDealer
    \/ DealersClose

SpecDealers == Init /\ [][NextDealers]_vars

\* ------------------------------------------------------ the waiters' floor
\* The tables open one after the other, each once and with a dealer of its
\* own, with or without a waiter; waiters join and leave, and open sessions are
\* closed.
WaiterAssignmentIds == {a.id : a \in waiter_assignments}

WaitersCreate ==
    \E waiter_id \in WaiterIds \cup {NULL} :
        /\ Len(sessions) < NumTables
        /\ Len(sessions) < NumDealers
        /\ create_session(Len(sessions) + 1, Len(sessions) + 1, waiter_id, 1, 0)

WaitersAddWaiter ==
    \E sid \in SessionIds, waiter_id \in WaiterIds :
        /\ Cardinality(waiter_assignments) < MaxAssign
        /\ add_waiter(sid, waiter_id)

WaitersRemoveWaiter ==
    \E sid \in SessionIds, assignment_id \in WaiterAssignmentIds :
        remove_waiter(sid, assignment_id)

WaitersClose ==
    \E sid \in SessionIds :
        /\ sessions[sid].status = "open"
        /\ close_session(sid, <<>>)

NextWaiters ==
    \/ WaitersCreate
    \/ WaitersAddWaiter
    \/ WaitersRemoveWaiter
    \/ WaitersClose

SpecWaiters == Init /\ [][NextWaiters]_vars

\* ------------------------------------------------- the shift under the clock
\* One table and one seat; dealers join, are replaced and leave; while the
\* session is open the player buys in for cash or on credit, cashes out with
\* or without a credit deduction, loses chips, and the seat is cleared; the
\* clock advances.
\* utc_now() has moved on between two requests: every timestamp stored is
\* earlier than the one the next request stamps.
Timestamps ==
    {sessions[s].created_at : s \in SessionIds}
      \cup {sessions[s].closed_at : s \in SessionIds}
      \cup {o.created_at : o \in chip_ops}
      \cup {a.started_at : a \in dealer_assignments}
      \cup {a.ended_at : a \in dealer_assignments}
FreshNow == \A t \in Timestamps : t < now

\* time passes between two requests
Tick ==
    /\ now < MaxTime
    /\ now' = now + 1
    /\ UNCHANGED <<sessions, seats, chip_ops, chip_purchases,
                   dealer_assignments, waiter_assignments, inflight, balance_adjustments, resp>>

ShiftCreate ==
    \E dealer_id \in DealerIds :
        /\ Len(sessions) < 1
        /\ FreshNow
        /\ create_session(1, dealer_id, NULL, 1, 0)

ShiftAddDealer ==
    \E sid \in SessionIds, dealer_id \in DealerIds :
        /\ Cardinality(dealer_assignments) < MaxAssign
        /\ FreshNow
        /\ add_dealer(sid, dealer_id)

ShiftReplaceDealer ==
    \E sid \in SessionIds, new_dealer_id \in DealerIds :
        /\ Cardinality(dealer_assignments) < MaxAssign
        /\ FreshNow
        /\ replace_dealer(sid, new_dealer_id, 0)

ShiftRemoveDealer ==
    \E sid \in SessionIds, assignment_id \in AssignmentIds :
        /\ FreshNow
        /\ remove_dealer(sid, assignment_id, 0)

ShiftAddChips ==
    \E sid \in SessionIds, q \in ChipRequests({0 - 1, 1}, {NULL, 1}) :
        /\ sessions[sid].status = "open"
        /\ NextId(chip_ops) <= MaxOps
        /\ FreshNow
        /\ add_chips(sid, 1, q.amount, q.payment_type, q.credit_to_deduct)
        /\ TotalsInRange(seats')

ShiftClear ==
    \E sid \in SessionIds :
        /\ sessions[sid].status = "open"
        /\ clear_seat(sid, 1)

ShiftClose ==
    \E sid \in SessionIds :
        /\ FreshNow
        /\ close_session(sid, <<>>)

NextShift ==
    \/ ShiftCreate
    \/ ShiftAddDealer
    \/ ShiftReplaceDealer
    \/ ShiftRemoveDealer
    \/ ShiftAddChips
    \/ ShiftClear
    \/ ShiftClose
    \/ Tick

SpecShift == Init /\ [][NextShift]_vars

\* ------------------------------------------------ the roster under the clock
\* One table: dealers are added, replaced and removed with the rake they
\* collected, and the session is closed, also more than once, with a rake for
\* some of its assignments, while the clock advances.
RosterCreate ==
    \E dealer_id \in DealerIds :
        /\ Len(sessions) < 1
        /\ FreshNow
        /\ create_session(1, dealer_id, NULL, 1, 0)

RosterAddDealer ==
    \E sid \in SessionIds, dealer_id \in DealerIds :
        /\ Cardinality(dealer_assignments) < MaxAssign
        /\ FreshNow
        /\ add_dealer(sid, dealer_id)

RosterReplaceDealer ==
    \E sid \in SessionIds, new_dealer_id \in DealerIds, rake \in Rakes :
        /\ Cardinality(dealer_assignments) < MaxAssign
        /\ FreshNow
        /\ replace_dealer(sid, new_dealer_id, rake)

RosterRemoveDealer ==
    \E sid \in SessionIds, assignment_id \in AssignmentIds, rake \in Rakes :
        /\ FreshNow
        /\ remove_dealer(sid, assignment_id, rake)

RosterClose ==
    \E sid \in SessionIds :
      \E dealer_rakes \in DealerRakes(sid) :
        /\ FreshNow
        /\ close_session(sid, dealer_rakes)

NextRoster ==
    \/ RosterCreate
    \/ RosterAddDealer
    \/ RosterReplaceDealer
    \/ RosterRemoveDealer
    \/ RosterClose
    \/ Tick

SpecRoster == Init /\ [][NextRoster]_vars

\* ------------------------------------------------- the hand-over of a table
\* One table and one seat: the dealer is replaced, chips are bought and
\* leave the seat, and the session is closed; several requests may fall on
\* the same value of the clock.
HandoverCreate ==
    /\ Len(sessions) < 1
    /\ create_session(1, 1, NULL, 1, 0)

HandoverReplace ==
    \E sid \in SessionIds, new_dealer_id \in DealerIds :
        /\ Cardinality(dealer_assignments) < MaxAssign
        /\ replace_dealer(sid, new_dealer_id, 0)

HandoverAddChips ==
    \E sid \in SessionIds, amount \in {0 - 1, 1} :
        /\ sessions[sid].status = "open"
        /\ NextId(chip_ops) <= MaxOps
        /\ add_chips(sid, 1, amount, "cash", NULL)
        /\ TotalsInRange(seats')

HandoverClose ==
    \E sid \in SessionIds :
        /\ sessions[sid].status = "open"
        /\ close_session(sid, <<>>)

NextHandover ==
    \/ HandoverCreate
    \/ HandoverReplace
    \/ HandoverAddChips
    \/ HandoverClose
    \/ Tick

SpecHandover == Init /\ [][NextHandover]_vars

\* ------------------------------------------------- the hours of the waiters
\* The tables open one after the other, with or without a waiter, and are
\* closed while the clock advances; the report computes the hours of a waiter.
HoursCreate ==
    \E waiter_id \in {NumWaiters, NULL} :
        /\ Len(sessions) < Min2(Min2(NumTables, NumDealers), MaxSessions)
        /\ create_session(Len(sessions) + 1, Len(sessions) + 1, waiter_id, 1, 0)

HoursClose ==
    \E sid \in SessionIds :
        /\ sessions[sid].status = "open"
        /\ close_session(sid, <<>>)

HoursReport ==
    \E order \in SessionLists, waiter_id \in WaiterIds :
        waiter_hours(order, waiter_id)

NextHours ==
    \/ HoursCreate
    \/ HoursClose
    \/ HoursReport
    \/ Tick

SpecHours == Init /\ [][NextHours]_vars

\* ================================================================ properties
\* what the properties read off a state, written without the handlers' helpers
TotalOf(ss, sid, seat_no) == ss[<<sid, seat_no>>].total
OpsAt(ops, sid, seat_no) == {o \in ops : o.session_id = sid /\ o.seat_no = seat_no}
CreditAt(purchases, sid, seat_no) ==
    SumAmount({p \in purchases : /\ p.session_id = sid /\ p.seat_no = seat_no
                                 /\ p.payment_type = "credit"})
IsOpen(s) == sessions[s].status = "open"

\* C1: in every reachable state, the total of every seat equals the sum of
\* the amounts of the chip operations stored for that seat.
C1_SeatTotalIsSumOfOps ==
    \A k \in DOMAIN seats :
        seats[k].total = SumAmount(OpsAt(chip_ops, k[1], k[2]))

\* C1, the state that breaks it: clear_seat has zeroed the total of a seat
\* whose chip operations are still stored and do not sum to zero.
C1_ClearedSeatKeepsOps ==
    /\ resp.op = "clear_seat" /\ resp.status = 200
    /\ \E k \in DOMAIN seats :
        /\ seats[k].total = 0
        /\ SumAmount(OpsAt(chip_ops, k[1], k[2])) > 0

\* C2: in every reachable state, no dealer has two assignments with
\* ended_at = NULL that belong to open sessions.
C2_DealerExclusive ==
    \A a, b \in dealer_assignments :
        (/\ a.dealer_id = b.dealer_id
         /\ a.ended_at = NULL /\ b.ended_at = NULL
         /\ IsOpen(a.session_id) /\ IsOpen(b.session_id)) => a.id = b.id

\* C2, the state that breaks it: a dealer active in two different open
\* sessions at once.
C2_DealerInTwoOpenSessions ==
    \E a, b \in dealer_assignments :
        /\ a.dealer_id = b.dealer_id /\ a.session_id # b.session_id
        /\ a.ended_at = NULL /\ b.ended_at = NULL
        /\ IsOpen(a.session_id) /\ IsOpen(b.session_id)

\* C3: in every reachable state, every table has at most one session with
\* status open.
C3_OneOpenSessionPerTable ==
    \A s1, s2 \in SessionIds :
        (/\ sessions[s1].table_id = sessions[s2].table_id
         /\ IsOpen(s1) /\ IsOpen(s2)) => s1 = s2

\* C3, its case: a table whose earlier session was closed has a new open
\* session, the one the last create_session returned.
C3_TableReopened ==
    /\ resp.op = "create_session" /\ resp.status = 200
    /\ \E s1, s2 \in SessionIds :
        /\ sessions[s1].table_id = sessions[s2].table_id
        /\ ~IsOpen(s1) /\ IsOpen(s2)
        /\ resp.result = s2

\* C4: right after close_session has succeeded on a session, every seat of
\* that session has total 0 and every dealer assignment of it has ended_at set.
C4_CloseZeroesSeatsAndEndsDealers ==
    (resp.op = "close_session" /\ resp.status = 200) =>
        /\ \A k \in DOMAIN seats : k[1] = resp.result => seats[k].total = 0
        /\ \A a \in dealer_assignments :
                a.session_id = resp.result => a.ended_at # NULL

\* C4, the state that breaks it: close_session has succeeded, every dealer
\* assignment of the session is ended, and a seat of it is left below 0.
C4_ClosedWithNegativeSeat ==
    /\ resp.op = "close_session" /\ resp.status = 200
    /\ \E k \in DOMAIN seats : k[1] = resp.result /\ seats[k].total < 0
    /\ \A a \in dealer_assignments :
            a.session_id = resp.result => a.ended_at # NULL

\* C5: create_session for a table that has an open session returns that
\* session and changes nothing in the store: no session, seat, dealer
\* assignment or waiter assignment is created, however often it is repeated.
C5_CreateOnOpenTableChangesNothing ==
    [][\A table_id \in TableIds, dealer_id \in DealerIds \cup {NULL},
         waiter_id \in WaiterIds \cup {NULL} :
          (/\ \E s \in SessionIds : sessions[s].table_id = table_id /\ IsOpen(s)
           /\ create_session(table_id, dealer_id, waiter_id, 1, 0))
          => /\ store' = store
             /\ resp'.status = 200
             /\ resp'.result \in SessionIds
             /\ sessions[resp'.result].table_id = table_id
             /\ IsOpen(resp'.result)]_vars

\* C5, its case: the last create_session returned a session that was not
\* the newest one, so it created none; both tables have an open session.
C5_ExistingSessionReturned ==
    /\ resp.op = "create_session" /\ resp.status = 200
    /\ resp.result \in SessionIds
    /\ resp.result < Len(sessions)
    /\ IsOpen(resp.result)

\* what a request added to the two ledgers
NewOps == chip_ops' \ chip_ops
NewPurchases == chip_purchases' \ chip_purchases
NothingRemoved == chip_ops \subseteq chip_ops' /\ chip_purchases \subseteq chip_purchases'
\* op is an operation of amount on the seat, p the purchase linked to it
OpOf(op, sid, seat_no, amount) ==
    op.session_id = sid /\ op.seat_no = seat_no /\ op.amount = amount
PurchaseOf(p, op, sid, seat_no, amount, ptype) ==
    /\ p.session_id = sid /\ p.seat_no = seat_no /\ p.amount = amount
    /\ p.chip_op_id = op.id /\ p.payment_type = ptype

\* C6: a cash buy-in of a > 0 on a seat with outstanding credit c > 0 records
\* payoff = min(a, c) as an operation of amount 0 linked to a credit purchase
\* of -payoff and, only when a - payoff > 0, an operation of a - payoff linked
\* to a cash purchase of a - payoff; the total grows by a - payoff and the
\* credit falls by payoff.
C6_CashBuyinPaysCreditFirst ==
    [][\A sid \in SessionIds, seat_no \in 1..MaxSeats, a \in 1..MaxAmount :
        LET c == CreditAt(chip_purchases, sid, seat_no)
            payoff == IF a <= c THEN a ELSE c
            rest == a - payoff
        IN  (c > 0 /\ add_chips(sid, seat_no, a, "cash", NULL)) =>
              /\ resp'.status = 200
              /\ NothingRemoved
              /\ \E z \in NewOps, p \in NewPurchases :
                   /\ OpOf(z, sid, seat_no, 0)
                   /\ PurchaseOf(p, z, sid, seat_no, 0 - payoff, "credit")
                   /\ IF rest > 0
                      THEN \E o \in NewOps, q \in NewPurchases :
                             /\ OpOf(o, sid, seat_no, rest)
                             /\ PurchaseOf(q, o, sid, seat_no, rest, "cash")
                             /\ o.id # z.id
                             /\ NewOps = {z, o} /\ NewPurchases = {p, q}
                      ELSE NewOps = {z} /\ NewPurchases = {p}
              /\ TotalOf(seats', sid, seat_no) = TotalOf(seats, sid, seat_no) + rest
              /\ CreditAt(chip_purchases', sid, seat_no) = c - payoff]_vars

\* C6, its case: a credit buy-in of 1 followed by a cash buy-in of 2 has paid
\* the credit off (operation 2 of amount 0, credit purchase -1) and bought
\* the remaining 1 for cash (operation 3).
C6_CreditPaidOffThenCash ==
    /\ resp.op = "add_chips" /\ resp.status = 200
    /\ {<<o.id, o.amount>> : o \in chip_ops} = {<<1, 1>>, <<2, 0>>, <<3, 1>>}
    /\ {<<p.chip_op_id, p.amount, p.payment_type>> : p \in chip_purchases}
          = {<<1, 1, "credit">>, <<2, 0 - 1, "credit">>, <<3, 1, "cash">>}
    /\ \E k \in DOMAIN seats : seats[k].total = 2

\* C7: a buy-in of a > 0 requested as credit, or as cash while the seat's
\* credit is <= 0, creates exactly one operation of a and exactly one
\* purchase of a with the requested classification, and adds a to the total.
C7_PlainBuyinIsOneOpOnePurchase ==
    [][\A sid \in SessionIds, seat_no \in 1..MaxSeats, a \in 1..MaxAmount,
         ptype \in PaymentTypes :
        ((ptype = "credit" \/ CreditAt(chip_purchases, sid, seat_no) <= 0)
         /\ SeatExists(sid, seat_no)
         /\ add_chips(sid, seat_no, a, ptype, NULL)) =>
              /\ resp'.status = 200
              /\ NothingRemoved
              /\ \E o \in NewOps, p \in NewPurchases :
                   /\ OpOf(o, sid, seat_no, a)
                   /\ PurchaseOf(p, o, sid, seat_no, a, ptype)
                   /\ NewOps = {o} /\ NewPurchases = {p}
              /\ TotalOf(seats', sid, seat_no) = TotalOf(seats, sid, seat_no) + a]_vars

\* C7, its case: an empty seat has taken a buy-in of 2 on credit, recorded
\* as one operation and one credit purchase.
C7_CreditBuyinRecorded ==
    /\ resp.op = "add_chips" /\ resp.status = 200
    /\ {<<o.id, o.amount>> : o \in chip_ops} = {<<1, 2>>}
    /\ {<<p.chip_op_id, p.amount, p.payment_type>> : p \in chip_purchases}
          = {<<1, 2, "credit">>}
    /\ \E k \in DOMAIN seats : seats[k].total = 2

\* the split the claim C8 asks a cash-out to respect; an omitted
\* credit_to_deduct deducts nothing
ValidSplit(a, credit_to_deduct, total, credit) ==
    LET d == IF credit_to_deduct = NULL THEN 0 ELSE credit_to_deduct
    IN  /\ 0 <= d
        /\ d <= credit /\ d <= a
        /\ a - d <= total - credit

\* C8: a cash-out whose credit_to_deduct (omitted, zero, negative or positive)
\* violates 0 <= credit_to_deduct <= min(credit, |amount|), or whose cash
\* portion |amount| - credit_to_deduct exceeds total - credit, is rejected
\* and leaves the seat total, the operations and the purchases unchanged.
C8_InvalidCashoutRejected ==
    [][\A sid \in SessionIds, seat_no \in 1..MaxSeats, a \in 1..MaxAmount,
         credit_to_deduct \in CreditToDeduct :
        (/\ SeatExists(sid, seat_no)
         /\ ~ValidSplit(a, credit_to_deduct, TotalOf(seats, sid, seat_no),
                        CreditAt(chip_purchases, sid, seat_no))
         /\ add_chips(sid, seat_no, 0 - a, "cash", credit_to_deduct)) =>
              /\ resp'.status # 200
              /\ UNCHANGED <<seats, chip_ops, chip_purchases>>]_vars

\* C8, the part the code keeps: a cash-out with credit_to_deduct > 0 that
\* breaks the split is rejected and changes nothing.  The state below is one
\* the rejection is reached in: the seat holds 1 chip bought on credit and
\* the last cash-out (of 2 with 1 from credit) was refused.
C8_PositiveDeductRejected ==
    /\ resp.op = "add_chips" /\ resp.status = 400
    /\ {<<o.id, o.amount>> : o \in chip_ops} = {<<1, 1>>}
    /\ {<<p.chip_op_id, p.amount, p.payment_type>> : p \in chip_purchases}
          = {<<1, 1, "credit">>}

\* C9: an accepted cash-out of a with credit_to_deduct = c > 0 takes a off
\* the total and c off the credit, records a credit purchase of -c and, when
\* a > c, a cash purchase of -(a - c): total - credit falls by a - c.
C9_CashoutWithCreditSplits ==
    [][\A sid \in SessionIds, seat_no \in 1..MaxSeats, a \in 1..MaxAmount,
         c \in 1..MaxAmount :
        LET total == TotalOf(seats, sid, seat_no)
            credit == CreditAt(chip_purchases, sid, seat_no)
            total2 == TotalOf(seats', sid, seat_no)
            credit2 == CreditAt(chip_purchases', sid, seat_no)
            cash_added == {p \in NewPurchases : p.payment_type = "cash"}
            credit_added == {p \in NewPurchases : p.payment_type = "credit"}
        IN  (/\ SeatExists(sid, seat_no)
             /\ add_chips(sid, seat_no, 0 - a, "cash", c)
             /\ resp'.status = 200) =>
              /\ NothingRemoved
              /\ total2 = total - a
              /\ credit2 = credit - c
              /\ \E p \in credit_added :
                    /\ credit_added = {p}
                    /\ p.amount = 0 - c /\ p.session_id = sid /\ p.seat_no = seat_no
              /\ IF a > c
                 THEN \E q \in cash_added :
                        /\ cash_added = {q}
                        /\ q.amount = 0 - (a - c)
                        /\ q.session_id = sid /\ q.seat_no = seat_no
                 ELSE cash_added = {}
              /\ SumAmount(NewOps) = 0 - a
              /\ total2 - credit2 = (total - credit) - (a - c)]_vars

\* C9, its case: a seat holding 1 chip bought for cash and 1 bought on credit
\* has cashed out 2, 1 of it from credit: operation 3 of -2 carries the cash
\* purchase of -1, operation 4 of 0 the credit purchase of -1.
C9_CashAndCreditCashedOut ==
    /\ resp.op = "add_chips" /\ resp.status = 200
    /\ {<<o.id, o.amount>> : o \in chip_ops}
          = {<<1, 1>>, <<2, 1>>, <<3, 0 - 2>>, <<4, 0>>}
    /\ {<<p.chip_op_id, p.amount, p.payment_type>> : p \in chip_purchases}
          = {<<1, 1, "cash">>, <<2, 1, "credit">>,
             <<3, 0 - 1, "cash">>, <<4, 0 - 1, "credit">>}
    /\ \E k \in DOMAIN seats : seats[k].total = 0

\* C10: undo_last on a seat removes exactly the operation with the highest id
\* of that seat and the purchase linked to it, takes that operation's amount
\* off the seat total, and leaves every other operation, purchase and seat
\* total of the session as it was.
C10_UndoRemovesHighestIdOnly ==
    [][\A sid \in SessionIds, seat_no \in 1..MaxSeats :
        LET mine == OpsAt(chip_ops, sid, seat_no)
        IN  (/\ SeatExists(sid, seat_no)
             /\ undo_last(sid, seat_no)
             /\ resp'.status = 200) =>
              \E top \in mine :
                /\ \A o \in mine : o.id <= top.id
                /\ chip_ops' = chip_ops \ {top}
                /\ chip_purchases' =
                      {p \in chip_purchases : p.chip_op_id # top.id}
                /\ seats' = [seats EXCEPT ![<<sid, seat_no>>].total =
                                            @ - top.amount]]_vars

\* C10, its case: seat 1 has undone its buy-in (operation 1) while the later
\* operation 2 of seat 2 and its purchase are still stored.
C10_UndoneBelowAnotherSeat ==
    /\ resp.op = "undo_last" /\ resp.status = 200
    /\ \E o \in chip_ops : o.id = 2 /\ o.seat_no = 2
    /\ \E p \in chip_purchases : p.chip_op_id = 2 /\ p.seat_no = 2
    /\ ~\E o \in chip_ops : o.id = 1
    /\ seats[<<1, 1>>].total = 0

\* C11: undo_last on a seat that has no chip operations fails with the
\* 'No history' error (the only 400 of undo_last) and leaves the seat totals,
\* the chip operations and the purchases unchanged.
C11_UndoWithoutHistoryFails ==
    [][\A sid \in SessionIds, seat_no \in 1..MaxSeats :
        (/\ SeatExists(sid, seat_no)
         /\ OpsAt(chip_ops, sid, seat_no) = {}
         /\ undo_last(sid, seat_no)) =>
              /\ resp'.op = "undo_last" /\ resp'.status = 400
              /\ UNCHANGED store]_vars

\* C11, its case: undo_last was refused on a seat without operations while
\* another seat of the session has operations stored.
C11_NoHistoryBesideHistory ==
    /\ resp.op = "undo_last" /\ resp.status = 400
    /\ chip_ops # {}
    /\ \E k \in DOMAIN seats : OpsAt(chip_ops, k[1], k[2]) = {}

\* C12: once a session is closed, no later step changes its status or its
\* closed_at: it is never reopened and a repeated close_session does not
\* stamp closed_at again.
C12_ClosedIsTerminal ==
    [][\A s \in SessionIds :
         sessions[s].status = "closed" =>
            /\ sessions'[s].status = "closed"
            /\ sessions'[s].closed_at = sessions[s].closed_at]_vars

\* C12, the state that breaks it: a session with no active dealer assignment
\* left, closed earlier, carries the closed_at of the close_session that was
\* just answered, later than the end of its last dealer assignment.
C12_ClosedAtStampedAgain ==
    /\ resp.op = "close_session" /\ resp.status = 200
    /\ sessions[resp.result].closed_at = now
    /\ \A a \in dealer_assignments :
            a.session_id = resp.result => (a.ended_at # NULL /\ a.ended_at < now)

\* C13: add_chips, undo_last and clear_seat on a session that is not open are
\* rejected and change no seat total, chip operation or purchase.
C13_ClosedSessionRejectsChips ==
    [][\A sid \in SessionIds, seat_no \in 1..MaxSeats :
        (/\ sessions[sid].status # "open"
         /\ \/ \E q \in ChipRequests(Amounts, CreditToDeduct) :
                  add_chips(sid, seat_no, q.amount, q.payment_type,
                            q.credit_to_deduct)
            \/ undo_last(sid, seat_no)
            \/ clear_seat(sid, seat_no)) =>
              /\ resp'.status # 200
              /\ UNCHANGED <<seats, chip_ops, chip_purchases>>]_vars

\* C13, the state that breaks it: the session is closed and a buy-in was
\* accepted after the close, so a seat of it holds chips.
C13_ChipsAddedAfterClose ==
    /\ resp.op = "add_chips" /\ resp.status = 200
    /\ \E k \in DOMAIN seats :
        /\ sessions[k[1]].status = "closed"
        /\ seats[k].total > 0

\* the dealer holds an active assignment in session sid or in an open session
DealerActive(sid, dealer_id) ==
    \E a \in dealer_assignments :
        /\ a.dealer_id = dealer_id
        /\ a.ended_at = NULL
        /\ \/ a.session_id = sid
           \/ sessions[a.session_id].status = "open"

\* C14: add_dealer is rejected, changing nothing, when the dealer is active in
\* this session or in any other open session; an add_dealer that succeeds
\* creates exactly one new active assignment, of that dealer in that session,
\* and modifies no assignment that existed.
C14_AddDealerExclusive ==
    [][\A sid \in SessionIds, dealer_id \in DealerIds :
        (resp'.op = "add_dealer" /\ add_dealer(sid, dealer_id)) =>
          IF DealerActive(sid, dealer_id)
          THEN /\ resp'.status = 400
               /\ UNCHANGED store
          ELSE resp'.status = 200 =>
               /\ dealer_assignments \subseteq dealer_assignments'
               /\ \E new \in dealer_assignments' \ dealer_assignments :
                    /\ dealer_assignments' = dealer_assignments \cup {new}
                    /\ new.session_id = sid
                    /\ new.dealer_id = dealer_id
                    /\ new.ended_at = NULL
                    /\ \A a \in dealer_assignments : a.id # new.id]_vars

\* C14, its case: add_dealer has just succeeded and the session has two active
\* assignments, of two dealers.
C14_CoDealerAdded ==
    /\ resp.op = "add_dealer" /\ resp.status = 200
    /\ \E s \in SessionIds :
        \E a, b \in ActiveAssignments(s) : a.dealer_id # b.dealer_id

\* every open session has at least one active dealer assignment
OpenSessionsHaveDealer ==
    \A s \in SessionIds :
        sessions[s].status = "open" => ActiveAssignments(s) # {}

\* C15: every open session has at least one active dealer assignment in every
\* reachable state; remove_dealer on the only active assignment of the
\* session fails and changes nothing, and a remove_dealer that succeeds ends
\* exactly the named assignment, stamping ended_at and the supplied rake
\* (the dealers leave with the rake MaxRake, which is not the rake an
\* assignment starts with).
C15_LastDealerStays ==
    [][/\ OpenSessionsHaveDealer'
       /\ \A a \in dealer_assignments :
            (/\ resp'.op = "remove_dealer"
             /\ remove_dealer(a.session_id, a.id, MaxRake)) =>
              /\ ActiveAssignments(a.session_id) = {a} =>
                    /\ resp'.status = 400
                    /\ UNCHANGED store
              /\ resp'.status = 200 =>
                    /\ a \in ActiveAssignments(a.session_id)
                    /\ dealer_assignments' =
                          (dealer_assignments \ {a}) \cup
                          {[a EXCEPT !.ended_at = now, !.rake = MaxRake]}]_vars

\* C15, its case: remove_dealer has just ended one of two assignments of an
\* open session with the largest rake, and the other one is still active.
C15_CoDealerRemoved ==
    /\ resp.op = "remove_dealer" /\ resp.status = 200
    /\ \E s \in SessionIds :
        /\ sessions[s].status = "open"
        /\ \E a, b \in dealer_assignments :
            /\ a.session_id = s /\ a.ended_at # NULL /\ a.rake = MaxRake
            /\ b.session_id = s /\ b.ended_at = NULL

\* C16: replace_dealer is rejected, changing nothing, whenever new_dealer holds
\* an active assignment in any open session, this session included; when it
\* succeeds it ends one active assignment of the session, stamping ended_at
\* and the outgoing rake, and opens one active assignment for new_dealer.
C16_ReplaceDealerExclusive ==
    [][\A sid \in SessionIds, new_dealer_id \in DealerIds, rake \in Rakes :
        (resp'.op = "replace_dealer"
            /\ replace_dealer(sid, new_dealer_id, rake)) =>
          IF DealerActive(sid, new_dealer_id)
          THEN /\ resp'.status = 400
               /\ UNCHANGED store
          ELSE resp'.status = 200 =>
               \E current \in ActiveAssignments(sid) :
               \E new \in dealer_assignments' \ dealer_assignments :
                    /\ dealer_assignments' =
                          (dealer_assignments \ {current}) \cup
                          {[current EXCEPT !.ended_at = now, !.rake = rake], new}
                    /\ new.session_id = sid
                    /\ new.dealer_id = new_dealer_id
                    /\ new.ended_at = NULL]_vars

\* C16, the state that breaks it: replace_dealer has just been accepted and
\* the only two assignments are of one dealer in one session, the first
\* ended and the second active: the dealer replaced themself.
C16_DealerReplacedBySelf ==
    /\ resp.op = "replace_dealer" /\ resp.status = 200
    /\ Cardinality(dealer_assignments) = 2
    /\ \E a, b \in dealer_assignments :
        /\ a.session_id = b.session_id /\ a.dealer_id = b.dealer_id
        /\ a.ended_at # NULL /\ b.ended_at = NULL

\* the waiter holds an active assignment in session sid
WaiterActiveIn(sid, waiter_id) ==
    \E a \in waiter_assignments :
        a.session_id = sid /\ a.waiter_id = waiter_id /\ a.ended_at = NULL

\* no waiter holds two active assignments in one session
WaiterOncePerSession ==
    \A a, b \in waiter_assignments :
        (/\ a.session_id = b.session_id /\ a.waiter_id = b.waiter_id
         /\ a.ended_at = NULL /\ b.ended_at = NULL) => a = b

\* C17: a waiter never holds two active assignments in one session, and
\* add_waiter is rejected (changing nothing) for a waiter active in the
\* session; add_waiter on an open session succeeds for a waiter who is not
\* active in it, whatever other open sessions the waiter is active in;
\* remove_waiter of an active assignment of an open session succeeds, ending
\* that assignment, also when it leaves the session without an active waiter.
C17_WaitersShared ==
    [][/\ WaiterOncePerSession'
       /\ \A sid \in SessionIds, waiter_id \in WaiterIds :
            (resp'.op = "add_waiter" /\ add_waiter(sid, waiter_id)) =>
               IF WaiterActiveIn(sid, waiter_id)
               THEN /\ resp'.status = 400
                    /\ UNCHANGED store
               ELSE sessions[sid].status = "open" =>
                    /\ resp'.status = 200
                    /\ \E new \in waiter_assignments' \ waiter_assignments :
                         /\ waiter_assignments' = waiter_assignments \cup {new}
                         /\ new.session_id = sid
                         /\ new.waiter_id = waiter_id
                         /\ new.ended_at = NULL
       /\ \A a \in waiter_assignments :
            (/\ resp'.op = "remove_waiter"
             /\ remove_waiter(a.session_id, a.id)
             /\ sessions[a.session_id].status = "open"
             /\ a.ended_at = NULL) =>
               /\ resp'.status = 200
               /\ waiter_assignments' =
                     (waiter_assignments \ {a}) \cup
                     {[a EXCEPT !.ended_at = now]}]_vars

\* C17, its case: remove_waiter has just succeeded and left an open session
\* without an active waiter, while the waiter it removed is still active in
\* another open session.
C17_LastWaiterRemovedElsewhereActive ==
    /\ resp.op = "remove_waiter" /\ resp.status = 200
    /\ \E s, t \in SessionIds :
        /\ s # t
        /\ sessions[s].status = "open" /\ sessions[t].status = "open"
        /\ ActiveWaiterAssignments(s) = {}
        /\ \E a \in waiter_assignments, b \in ActiveWaiterAssignments(t) :
            /\ a.session_id = s /\ a.ended_at # NULL
            /\ a.waiter_id = b.waiter_id

\* the loss events of a session: negative chip operations linked to no purchase
LossEvents(sid) ==
    {op \in chip_ops : /\ op.session_id = sid
                       /\ op.amount < 0
                       /\ \A p \in chip_purchases : p.chip_op_id # op.id}

AssignmentsOf(sid) == {a \in dealer_assignments : a.session_id = sid}

\* the assignments whose shift covers the time of op, and the one of them
\* that started last
Covering(sid, op) ==
    {a \in AssignmentsOf(sid) :
        /\ a.started_at <= op.created_at
        /\ op.created_at <= assignment_end(sid, a)}
LatestCovering(sid, op) ==
    {a \in Covering(sid, op) :
        \A b \in Covering(sid, op) : b.started_at <= a.started_at}

RECURSIVE SumRake(_, _)
SumRake(sid, assignments) ==
    IF assignments = {} THEN 0
    ELSE LET a == CHOOSE x \in assignments : TRUE
         IN  dealer_rake(sid, a) + SumRake(sid, assignments \ {a})

\* C18: in the computed rake of a closed session every loss event is counted
\* for exactly one dealer assignment, the covering assignment that started
\* last, also when co-dealers overlap at the time of the event; the computed
\* rakes of the assignments sum to the total |amount| of the loss events.
C18_LossAttributedOnce ==
    \A sid \in SessionIds :
        sessions[sid].status = "closed" =>
            /\ \A op \in LossEvents(sid) :
                LET counted == {a \in AssignmentsOf(sid) :
                                    CountsAsRake(sid, a, op)}
                IN  /\ Cardinality(counted) = 1
                    /\ counted = LatestCovering(sid, op)
            /\ SumRake(sid, AssignmentsOf(sid)) =
                    0 - SumAmount(LossEvents(sid))

\* C18, the state that breaks it: a closed session with one loss event of one
\* chip and two dealer assignments, each with a computed rake of one chip.
C18_LossCountedForBothDealers ==
    \E sid \in SessionIds :
        /\ sessions[sid].status = "closed"
        /\ Cardinality(LossEvents(sid)) = 1
        /\ SumAmount(LossEvents(sid)) = 0 - 1
        /\ Cardinality(AssignmentsOf(sid)) = 2
        /\ \A a \in AssignmentsOf(sid) : dealer_rake(sid, a) = 1

\* the negative chip operations a step adds are linked to a purchase
NewCashoutsLinked ==
    \A o \in chip_ops' \ chip_ops :
        o.amount < 0 => o.id \in chip_op_ids_with_purchases'

\* C19: a negative chip operation that records a settled cash-out is never a
\* loss event of the computed rake: the negative operation written by an
\* accepted add_chips with a credit deduction (whatever the split between cash
\* and credit) or by the forced cash-out of close_session is linked to a
\* purchase, and a negative operation linked to a purchase stays linked in
\* every later state, clear_seat included.
C19_SettledCashoutIsNoLoss ==
    [][/\ \A sid \in SessionIds, amount \in 1..MaxAmount,
            credit_to_deduct \in 1..MaxAmount :
            (/\ resp'.op = "add_chips" /\ resp'.status = 200
             /\ add_chips(sid, 1, 0 - amount, "cash", credit_to_deduct)) =>
                NewCashoutsLinked
       /\ \A sid \in SessionIds :
            (/\ resp'.op = "close_session"
             /\ close_session(sid, <<>>)) => NewCashoutsLinked
       /\ \A o \in chip_ops \cap chip_ops' :
            (o.amount < 0 /\ o.id \in chip_op_ids_with_purchases) =>
                o.id \in chip_op_ids_with_purchases']_vars

\* C19, the state that breaks it: in a closed session a cash-out of one chip
\* was settled by a credit deduction of one chip (the operation of amount 0
\* that follows it carries the credit purchase of -1), and the cash-out is
\* counted in the computed rake of a dealer assignment.
C19_CreditCashoutCountedAsRake ==
    \E sid \in SessionIds :
        /\ sessions[sid].status = "closed"
        /\ \E o, c \in chip_ops :
            /\ o.session_id = sid /\ o.amount = 0 - 1
            /\ c.session_id = sid /\ c.amount = 0 /\ c.id = o.id + 1
            /\ \E p \in chip_purchases :
                /\ p.chip_op_id = c.id
                /\ p.payment_type = "credit"
                /\ p.amount = 0 - 1
            /\ \E a \in AssignmentsOf(sid) : CountsAsRake(sid, a, o)

CreditPurchases(purchases) == {p \in purchases : p.payment_type = "credit"}

\* C20: close_session leaves the outstanding credit of every seat unchanged:
\* the purchases it adds for the forced cash-outs are all classified as cash,
\* and no credit purchase is created, altered or removed.
C20_CloseKeepsCredit ==
    [][\A sid \in SessionIds :
        (resp'.op = "close_session" /\ close_session(sid, <<>>)) =>
            /\ chip_purchases \subseteq chip_purchases'
            /\ \A p \in chip_purchases' \ chip_purchases :
                    p.payment_type = "cash"
            /\ CreditPurchases(chip_purchases') = CreditPurchases(chip_purchases)
            /\ \A k \in DOMAIN seats :
                    CreditAt(chip_purchases', k[1], k[2]) =
                        CreditAt(chip_purchases, k[1], k[2])]_vars

\* C20, its case: close_session has just cashed out a seat that holds chips
\* bought on credit: the seat is at 0, its forced cash-out is a cash purchase
\* and its credit is still outstanding.
C20_ClosedWithCreditOutstanding ==
    /\ resp.op = "close_session" /\ resp.status = 200
    /\ \E k \in DOMAIN seats :
        /\ sessions[k[1]].status = "closed"
        /\ seats[k].total = 0
        /\ CreditAt(chip_purchases, k[1], k[2]) > 0
        /\ \E p \in chip_purchases :
            /\ p.session_id = k[1] /\ p.seat_no = k[2]
            /\ p.payment_type = "cash" /\ p.amount < 0

C22_RacingCreatesOneSession ==
    [][\A slot \in RequestSlots :
        create_session_commit(slot) =>
            Cardinality({s \in DOMAIN sessions' :
                            /\ sessions'[s].table_id = inflight[slot].table_id
                            /\ sessions'[s].status = "open"}) <= 1]_vars

\* C22, the state that breaks it: no request is under way and the last
\* create_session answered with a new session of a table that has another
\* open session.
C22_TwoSessionsFromRacingCreates ==
    /\ \A k \in RequestSlots : inflight[k] = Idle
    /\ resp.op = "create_session" /\ resp.status = 200
    /\ resp.result \in SessionIds
    /\ \E s \in SessionIds :
        /\ s # resp.result
        /\ sessions[s].table_id = sessions[resp.result].table_id
        /\ sessions[s].status = "open"
        /\ sessions[resp.result].status = "open"

\* the dealer holds an active assignment in an open session other than sid
DealerActiveElsewhere(sid, dealer_id) ==
    \E a \in dealer_assignments :
        /\ a.dealer_id = dealer_id
        /\ a.ended_at = NULL
        /\ a.session_id # sid
        /\ sessions[a.session_id].status = "open"

\* C23: when requests that assign one dealer to different open sessions
\* interleave, the one that commits while the dealer holds an active
\* assignment in another open session is rejected and changes nothing.
C23_RacingAssignmentRejected ==
    [][\A slot \in RequestSlots :
        /\ (/\ create_session_commit(slot)
            /\ DealerActiveElsewhere(NULL, inflight[slot].dealer_id)) =>
                (resp'.status = 400 /\ UNCHANGED store)
        /\ (/\ add_dealer_commit(slot) \/ replace_dealer_commit(slot)
            /\ DealerActiveElsewhere(inflight[slot].sid,
                                     inflight[slot].dealer_id)) =>
                (resp'.status = 400 /\ UNCHANGED store)]_vars

\* C23, the state that breaks it: no request is under way, and the only two
\* dealer assignments are active, of one dealer, in two open sessions that
\* both name the dealer as their dealer.
C23_DealerAssignedTwiceByRace ==
    /\ \A k \in RequestSlots : inflight[k] = Idle
    /\ Cardinality(dealer_assignments) = 2
    /\ \E a, b \in dealer_assignments :
        /\ a.session_id # b.session_id
        /\ a.dealer_id = b.dealer_id
        /\ a.ended_at = NULL /\ b.ended_at = NULL
        /\ sessions[a.session_id].status = "open"
        /\ sessions[b.session_id].status = "open"
        /\ sessions[a.session_id].dealer_id = a.dealer_id
        /\ sessions[b.session_id].dealer_id = a.dealer_id

\* C24: when add_chips and add_chips, or add_chips and undo_last, on one seat
\* interleave the load of seat.total and the commit, no update is lost: a
\* commit that finds the total equal to the sum of the seat's stored chip
\* operations leaves it equal to that sum.
C24_RacingSeatUpdatesKeepTotal ==
    [][\A slot \in RequestSlots :
        (/\ add_chips_commit(slot) \/ undo_last_commit(slot)
         /\ \A k \in DOMAIN seats :
                seats[k].total = SumAmount(OpsAt(chip_ops, k[1], k[2]))) =>
            \A k \in DOMAIN seats :
                seats'[k].total = SumAmount(OpsAt(chip_ops', k[1], k[2]))]_vars

\* C24, the state that breaks it: no request is under way, two buy-ins of
\* one chip are stored for the seat and its total is one chip.
C24_BuyinLost ==
    /\ \A k \in RequestSlots : inflight[k] = Idle
    /\ resp.op = "add_chips" /\ resp.status = 200
    /\ \E k \in DOMAIN seats :
        /\ Cardinality(OpsAt(chip_ops, k[1], k[2])) = 2
        /\ \A o \in OpsAt(chip_ops, k[1], k[2]) : o.amount = 1
        /\ seats[k].total = 1

\* the hours of the clock during which the waiter serves a session
ServedHours(waiter_id) ==
    {t \in 0..(now - 1) :
        \E s \in SessionIds :
            /\ sessions[s].waiter_id = waiter_id
            /\ sessions[s].created_at <= t
            /\ t + 1 <= (IF sessions[s].closed_at # NULL
                         THEN sessions[s].closed_at ELSE now)}

\* C25: the waiter hours computed are the length of the union of the
\* waiter's service intervals: overlapping and touching intervals are counted
\* once, whatever the order in which the sessions are supplied.
C25_WaiterHoursAreUnion ==
    [][\A order \in SessionLists, waiter_id \in WaiterIds :
        (resp'.op = "waiter_hours" /\ waiter_hours(order, waiter_id)) =>
            resp'.result = Cardinality(ServedHours(waiter_id))]_vars

\* C25, its case: the waiter serves two sessions, the first from 0 to 2 and
\* the second from 1 to 3, and the hours reported are 3.
C25_OverlapCountedOnce ==
    /\ resp.op = "waiter_hours" /\ resp.result = 3
    /\ now = 3
    /\ Len(sessions) = 2
    /\ sessions[1].waiter_id = sessions[2].waiter_id
    /\ sessions[1].created_at = 0 /\ sessions[1].closed_at = 2
    /\ sessions[2].created_at = 1 /\ sessions[2].closed_at = NULL

\* the most recent operation of the seat of o
MostRecentOfSeat(o) ==
    \A q \in OpsOfSeat(o.session_id, o.seat_no) : q.id <= o.id

C27_PurchasesLinkedToOps ==
    /\ \A p \in chip_purchases :
        \E o \in chip_ops :
            /\ o.id = p.chip_op_id
            /\ o.session_id = p.session_id
            /\ o.seat_no = p.seat_no
    /\ \A p, q \in chip_purchases : p.chip_op_id = q.chip_op_id => p = q

\* C27, its case: after buy-ins, an undo, a cleared seat and the close of the
\* session, a seat holds an operation without purchase next to a forced
\* cash-out with its purchase.
C27_LinkedAfterUndoClearClose ==
    \E s \in SessionIds :
        /\ sessions[s].status = "closed"
        /\ \E o \in chip_ops :
            /\ o.session_id = s /\ o.amount > 0
            /\ \A p \in chip_purchases : p.chip_op_id # o.id
        /\ \E o \in chip_ops, p \in chip_purchases :
            /\ o.session_id = s /\ o.amount < 0
            /\ p.chip_op_id = o.id /\ p.amount < 0
        /\ \E o \in chip_ops : NextId(chip_ops) > o.id + 1 /\ o.id > 1
                                /\ \A q \in chip_ops : q.id # o.id + 1

\* C28: clear_seat leaves the seat without player name, with total 0 and
\* without purchases, so that its credit and its total chips played are 0;
\* the other seats, their purchases and the chip operations are unchanged.
C28_ClearSeatResetsSeat ==
    [][\A sid \in SessionIds, seat_no \in 1..MaxSeats :
        (/\ resp'.op = "clear_seat"
         /\ SeatExists(sid, seat_no)
         /\ clear_seat(sid, seat_no)) =>
            /\ resp'.status = 200
            /\ seats'[<<sid, seat_no>>].player_name = NULL
            /\ seats'[<<sid, seat_no>>].total = 0
            /\ \A p \in chip_purchases' :
                    ~(p.session_id = sid /\ p.seat_no = seat_no)
            /\ get_seat_credit(chip_purchases', sid, seat_no) = 0
            /\ get_total_chips_played(chip_purchases', sid, seat_no) = 0
            /\ \A k \in DOMAIN seats :
                    k # <<sid, seat_no>> =>
                        /\ seats'[k] = seats[k]
                        /\ \A p \in chip_purchases :
                                (p.session_id = k[1] /\ p.seat_no = k[2]) =>
                                    p \in chip_purchases'
            /\ chip_ops' = chip_ops]_vars

\* C28, its case: a seat that held chips bought on credit was cleared, next
\* to a seat with a player, chips and credit of its own.
C28_ClearedBesideCreditSeat ==
    /\ resp.op = "clear_seat" /\ resp.status = 200
    /\ \E k, j \in DOMAIN seats :
        /\ k # j
        /\ seats[k].player_name = NULL /\ seats[k].total = 0
        /\ \E o \in chip_ops : o.session_id = k[1] /\ o.seat_no = k[2] /\ o.amount > 0
        /\ \A p \in chip_purchases : ~(p.session_id = k[1] /\ p.seat_no = k[2])
        /\ seats[j].player_name # NULL /\ seats[j].total > 0
        /\ get_seat_credit(chip_purchases, j[1], j[2]) > 0

\* C29: a dealer assignment only moves from active to ended: it is never
\* deleted, an active one stays as it is or gets its ended_at (and rake), and
\* an ended one keeps its ended_at and its rake whatever remove_dealer,
\* replace_dealer or close_session do later.
C29_EndedAssignmentIsFinal ==
    [][\A a \in dealer_assignments :
        \/ a \in dealer_assignments'
        \/ /\ a.ended_at = NULL
           /\ \E b \in dealer_assignments' :
                /\ b.ended_at # NULL
                /\ [b EXCEPT !.ended_at = NULL, !.rake = a.rake] = a]_vars

\* C29, its case: the session was closed with a rake given for an assignment
\* that remove_dealer or replace_dealer had ended earlier with another rake,
\* and the assignment still carries its own end and rake.
C29_CloseAfterEndedAssignment ==
    /\ resp.op = "close_session" /\ resp.status = 200
    /\ \E a, b \in dealer_assignments :
        /\ a.session_id = b.session_id
        /\ sessions[a.session_id].status = "closed"
        /\ a.ended_at # NULL /\ a.ended_at < sessions[a.session_id].closed_at
        /\ a.rake = 0
        /\ b.ended_at = sessions[b.session_id].closed_at
        /\ b.rake = MaxRake

\* C30: close_player_credit on a session that is not closed, on a seat whose
\* credit is 0, or for an amount above the credit of the seat, is rejected:
\* no balance adjustment is created and no purchase (nor any other row)
\* changes.
C30_CloseCreditRejected ==
    [][\A sid \in SessionIds, amount \in 1..MaxAmount :
        (/\ resp'.op = "close_player_credit"
         /\ \/ sessions[sid].status # "closed"
            \/ CreditAt(chip_purchases, sid, 1) = 0
            \/ amount > CreditAt(chip_purchases, sid, 1)
         /\ close_player_credit(sid, 1, amount)) =>
              /\ resp'.status = 400
              /\ balance_adjustments' = balance_adjustments
              /\ chip_purchases' = chip_purchases
              /\ UNCHANGED store]_vars

\* C30, its case: after a part of the credit of the seat was closed, a
\* request for more than the credit left was rejected.
C30_RejectedAboveCreditLeft ==
    /\ resp.op = "close_player_credit" /\ resp.status = 400
    /\ Len(balance_adjustments) = 1
    /\ \E s \in SessionIds :
        /\ sessions[s].status = "closed"
        /\ CreditAt(chip_purchases, s, 1) = 1

\* C31: the chips_in_play counter of a session never decreases, whatever
\* add_chips, undo_last, clear_seat and close_session do.
C31_ChipsInPlayNeverDecreases ==
    [][\A s \in SessionIds :
        sessions'[s].chips_in_play >= sessions[s].chips_in_play]_vars

\* C31, its case: the counter stands at 2 although the purchases left after
\* an undo or a cleared seat add up to 1, the last request being a buy-in.
C31_CounterAboveChipsBought ==
    /\ resp.op = "add_chips" /\ resp.status = 200
    /\ \E s \in SessionIds :
        /\ sessions[s].chips_in_play = 2
        /\ SumAmount({p \in chip_purchases : p.session_id = s}) = 1

\* a loss event of session s stamped t
LossAt(s, op, t) ==
    /\ op.session_id = s /\ op.amount < 0 /\ op.created_at = t
    /\ \A p \in chip_purchases : p.chip_op_id # op.id

C33_UndoRevertsAddChips ==
    [][\A sid \in SessionIds, q \in ChipRequests(Amounts, CreditToDeduct) :
        (/\ resp'.op = "add_chips" /\ resp'.status = 200
         /\ add_chips(sid, 1, q.amount, q.payment_type, q.credit_to_deduct)) =>
            LET u == UndoEffect(OpsAt(chip_ops', sid, 1), chip_purchases',
                                TotalOf(seats', sid, 1))
            IN  /\ u.total = TotalOf(seats, sid, 1)
                /\ chip_purchases' \ u.purchase = chip_purchases
                /\ CreditAt(chip_purchases' \ u.purchase, sid, 1)
                        = CreditAt(chip_purchases, sid, 1)]_vars

\* C33, the state that breaks it: a seat with 1 chip on credit bought 2 in
\* cash, split into a payoff of 1 and a remainder of 1, and undo_last took
\* back the remainder only; the payoff purchase is still there, the credit
\* is 0 and not 1 as before the request.
C33_PayoffLeftAfterUndo ==
    /\ resp.op = "undo_last" /\ resp.status = 200
    /\ {<<o.id, o.amount>> : o \in chip_ops} = {<<1, 1>>, <<2, 0>>}
    /\ {<<p.chip_op_id, p.amount, p.payment_type>> : p \in chip_purchases}
          = {<<1, 1, "credit">>, <<2, 0 - 1, "credit">>}
    /\ seats[<<1, 1>>].total = 1

\* C34: with requests executed one at a time, the outstanding credit of
\* every seat (the sum of its credit-classified purchases) is never negative.
C34_CreditNeverNegative ==
    \A k \in DOMAIN seats : CreditAt(chip_purchases, k[1], k[2]) >= 0

\* C34, its case: the credit of a seat was taken down to 0 by a payoff or a
\* deduction (a negative credit purchase is stored for it) while another
\* seat still owes credit.
C34_CreditPaidDownToZero ==
    \E k, j \in DOMAIN seats :
        /\ k # j
        /\ CreditAt(chip_purchases, k[1], k[2]) = 0
        /\ \E p \in chip_purchases :
            /\ p.session_id = k[1] /\ p.seat_no = k[2]
            /\ p.payment_type = "credit" /\ p.amount < 0
        /\ CreditAt(chip_purchases, j[1], j[2]) > 0

\* C35: the total of a seat is never negative: no accepted add_chips,
\* undo_last or clear_seat takes more chips from a seat than it holds.
C35_SeatTotalNeverNegative ==
    \A k \in DOMAIN seats : seats[k].total >= 0

\* C35, the state that breaks it: a cash-out of 1 without credit deduction
\* was accepted on a seat that never held a chip; its total is -1.
C35_CashoutFromEmptySeat ==
    /\ resp.op = "add_chips" /\ resp.status = 200
    /\ {<<o.id, o.seat_no, o.amount>> : o \in chip_ops} = {<<1, 1, 0 - 1>>}
    /\ chip_purchases = {}
    /\ seats[<<1, 1>>].total = 0 - 1

\* C36: in every open session, dealer_id names a dealer who holds an active
\* assignment in that session.
C36_PrimaryDealerIsActive ==
    \A s \in SessionIds :
        sessions[s].status = "open" =>
            \E a \in dealer_assignments :
                /\ a.session_id = s
                /\ a.ended_at = NULL
                /\ a.dealer_id = sessions[s].dealer_id

\* C36, its case: the dealer who opened the session was removed while a
\* co-dealer stayed, and the session now names the co-dealer.
C36_PrimaryPassedToCoDealer ==
    /\ resp.op = "remove_dealer" /\ resp.status = 200
    /\ \E s \in SessionIds, a, b \in dealer_assignments :
        /\ sessions[s].status = "open"
        /\ a.session_id = s /\ b.session_id = s
        /\ a.started_at <= b.started_at /\ a.id < b.id
        /\ a.ended_at # NULL /\ b.ended_at = NULL
        /\ sessions[s].dealer_id = b.dealer_id
        /\ a.dealer_id # b.dealer_id

\* the session has no loss event: every negative chip operation has a purchase
NoLossEvent(s) ==
    \A o \in chip_ops :
        (o.session_id = s /\ o.amount < 0) =>
            \E p \in chip_purchases : p.chip_op_id = o.id

\* C37: get_session_rake reports buyins + cashouts - chips on table, and in
\* a session without loss event and without cleared seat the rake reported
\* is 0, also after a cash buy-in that paid off credit.
C37_NoLossNoRake ==
    [][\A sid \in SessionIds :
        (/\ resp'.op = "get_session_rake"
         /\ get_session_rake(sid)
         /\ NoLossEvent(sid)) =>
            resp'.result = 0]_vars

\* C37, the state that breaks it: a seat bought 1 chip on credit, then 2 in
\* cash (1 pays off the credit, 1 buys a chip); the seat holds 2 chips, no
\* chip has left it, and the rake reported is -1.
C37_PayoffCountedAsCashout ==
    /\ resp.op = "get_session_rake" /\ resp.result = 0 - 1
    /\ {<<p.chip_op_id, p.amount, p.payment_type>> : p \in chip_purchases}
          = {<<1, 1, "credit">>, <<2, 0 - 1, "credit">>, <<3, 1, "cash">>}
    /\ \A o \in chip_ops : o.amount >= 0 /\ o.seat_no = 1
    /\ seats[<<1, 1>>].total = 2

\* C38: in every reachable state a session has the status closed if and only
\* if its closed_at is set.
C38_ClosedIffClosedAt ==
    \A s \in SessionIds :
        (sessions[s].status = "closed") <=> (sessions[s].closed_at # NULL)

\* C38, its case: close_session has closed a session that was opened earlier
\* and whose dealer was replaced; it is closed and carries the time of the
\* close.
C38_ClosedWithCloseTime ==
    /\ resp.op = "close_session" /\ resp.status = 200
    /\ sessions[1].status = "closed"
    /\ sessions[1].closed_at = now /\ sessions[1].created_at < now
    /\ Cardinality(EveryAssignment(1)) = 2

\* C39: close_session leaves every waiter assignment of the session as it
\* was: a waiter assignment that was active before the close still has no
\* ended_at after the session is closed, and no row of the waiters changes.
C39_CloseKeepsWaiters ==
    [][\A sid \in SessionIds :
        (/\ resp'.op = "close_session"
         /\ sessions[sid].status = "open"
         /\ sessions'[sid].status = "closed") =>
            /\ waiter_assignments' = waiter_assignments
            /\ \A a \in waiter_assignments :
                (a.session_id = sid /\ a.ended_at = NULL) =>
                    \E b \in waiter_assignments' :
                        b.id = a.id /\ b.ended_at = NULL]_vars

\* C39, its case: a session opened with a waiter has been closed, and the
\* assignment of its waiter is still active.
C39_ActiveWaiterOfClosedSession ==
    /\ resp.op = "close_session" /\ resp.status = 200
    /\ \E sid \in SessionIds :
        /\ resp.result = sid
        /\ sessions[sid].status = "closed"
        /\ \E a \in waiter_assignments :
            a.session_id = sid /\ a.ended_at = NULL

====
